---- MODULE Spec2Model ----
(***************************************************************************)
(* A model of the guided-tour engine: the unit splitter, the background    *)
(* resolver, the tour graph builder and the step orderer.                  *)
(***************************************************************************)
EXTENDS Integers, Sequences, FiniteSets, TLC

VARIABLES
    steps,      \* the main steps handed to buildTourSteps, in input order
    ordered,    \* reorderMainSteps(steps): the ordered main steps
    graph,      \* buildTourGraph(ordered): [nodes, edges]
    phase,      \* "build" while the input is assembled, then "done"
    shuffled,   \* the same main steps in another input order
    reordered,  \* reorderMainSteps(shuffled)
    run,        \* one call of orderByGraph on given edges, statement by statement
    hunk,       \* the diffText of one hunk of the revised file, line by line
    units,      \* the units splitChangeUnitsByDefinitions makes of the hunk
    splitPhase, \* "idle", "hunk" while the hunk is written, then "split"
    analysis,   \* the file of the hunk and what getDefinitionsForFile gave for it
    headFunctions, \* the functions of the analysis of the file at HEAD
    revisedCalls,  \* the calls of the analysis of the revised file
    bgUnits,       \* the units of the file given to attachBackgroundRegions
    bgPhase,       \* "input", then "attached" or "skipped"
    parser,        \* parseChangeUnitsFromDiff, one line of the diff at a time
    headersRead,   \* history: each hunk header read, with the file of its block
    explain,       \* buildTourStepsWithExplanations, one await at a time
    store,         \* the explanation store: workspace state and store file
    started,       \* what the last startTour loaded, applied and showed
    grouping,      \* groupChangeUnits: the units given and the groups returned
    controller,    \* the TourController: its fields and what listeners saw
    invocations    \* the startTour invocations in flight, each at an await

vars == <<steps, ordered, graph, phase, shuffled, reordered, run,
          hunk, units, splitPhase, analysis,
          headFunctions, revisedCalls, bgUnits, bgPhase,
          parser, headersRead, explain, store, started,
          grouping, controller, invocations>>

\* What the actions of the tour build leave alone.
splitVars == <<hunk, units, splitPhase, analysis>>
bgVars == <<headFunctions, revisedCalls, bgUnits, bgPhase>>
parseVars == <<parser, headersRead>>
sessionVars == <<explain, store, started>>
uiVars == <<grouping, controller, invocations>>
notTour == <<run, splitVars, bgVars, parseVars, sessionVars, uiVars>>

None == "none"

\* ------------------------------------------------------------- bounds
MaxSteps == 3
MaxGraphSteps == 2
MaxNodes == 3
MaxRunCalls == 4
MaxHunkLines == 4
MaxRemoved == 1
MaxCalls == 3
MaxBgUnits == 2
MaxDiffLines == 4

\* ------------------------------------------------------------ helpers
Range(s) == {s[i] : i \in DOMAIN s}

Min(S) == CHOOSE x \in S : \A y \in S : x <= y
Max(S) == CHOOSE x \in S : \A y \in S : y <= x

\* The elements of a finite set of integers in ascending order.
\* (T \in {S} names the value of S, so that it is computed once.)
AscSeq(S) ==
    CHOOSE seq \in
        {[k \in 1..Cardinality(T) |->
            CHOOSE x \in T : Cardinality({y \in T : y < x}) = k - 1] : T \in {S}} :
        TRUE

\* Array.prototype.sort with a comparator that orders by a key: stable.
StableSort(s, Less(_, _)) ==
    LET n == Len(s)
        before(i) == {j \in 1..n :
                        \/ Less(s[j], s[i])
                        \/ (~Less(s[i], s[j]) /\ j < i)}
    IN [k \in 1..n |-> s[CHOOSE i \in 1..n : Cardinality(before(i)) = k - 1]]

\* The insertion order of a JavaScript Set fed the elements of s in turn.
DedupSeq(s) ==
    LET keep == {i \in DOMAIN s : \A j \in 1..(i - 1) : s[j] # s[i]}
        idx == AscSeq(keep)
    IN [k \in DOMAIN idx |-> s[idx[k]]]

RECURSIVE Concat(_)
Concat(ss) ==
    CHOOSE seq \in
        {IF tt = <<>> THEN <<>> ELSE Head(tt) \o Concat(Tail(tt)) : tt \in {ss}} :
        TRUE

\* String.prototype.localeCompare and the code-unit order of `<` on the
\* file paths of the model: "a.ts" sorts before "B.ts" by locale, after it
\* by code unit ('B' is 0x42, 'a' is 0x61).
Files == {"a.ts", "B.ts"}
LocaleRank(f) == IF f = "a.ts" THEN 1 ELSE 2
CodeUnitRank(f) == IF f = "B.ts" THEN 1 ELSE 2
LocaleLess(f, g) == LocaleRank(f) < LocaleRank(g)
CodeUnitLess(f, g) == CodeUnitRank(f) < CodeUnitRank(g)

\* ------------------------------------------------- tourBuilder.ts: order
\* collectCallNames + collectIdentifierNames: the names a unit refers to, in
\* the insertion order of the returned Set. target.names holds the
\* identifiers of the unit's added lines in that order.
QualifiedParts(call) ==
    IF call.qualifiedName # <<>> /\ call.qualifiedName # <<call.name>>
    THEN SelectSeq(call.qualifiedName, LAMBDA p : p \notin {"self", "this"})
    ELSE <<>>

collectRelatedNames(target) ==
    DedupSeq(
        Concat([k \in DOMAIN target.relatedCalls |->
                    <<target.relatedCalls[k].name>>
                    \o QualifiedParts(target.relatedCalls[k])])
        \o target.names)

\* A comparator of nodes that stops at the kind and ignores the place.
compareNodesByKind(a, b) ==
    LET rank(n) == IF n.changeKind = "global" THEN 2
                   ELSE IF n.changeKind = "definition" THEN 1 ELSE 0
    IN rank(b) < rank(a)

\* A wrong reading of isGlobalStep: the definitions taken for the globals.
isDefinitionStep(step) == step.changeKind = "definition"

isGlobalStep(step) == step.changeKind = "global"

compareNodesRank(a) ==
    IF a.changeKind = "global" THEN 2
    ELSE IF a.changeKind = "definition" THEN 1 ELSE 0

\* compareNodes(a, b) < 0
compareNodes(a, b) ==
    IF compareNodesRank(a) # compareNodesRank(b)
    THEN compareNodesRank(b) < compareNodesRank(a)
    ELSE IF a.filePath # b.filePath
         THEN LocaleLess(a.filePath, b.filePath)
         ELSE a.startLine < b.startLine

\* defByFileAndName.get(`${file}|${name}`): node indexes, in node order.
defByFileAndName(nodes, file, name) ==
    AscSeq({i \in DOMAIN nodes :
                /\ nodes[i].changeKind \in {"definition", "global"}
                /\ nodes[i].definitionName # None
                /\ nodes[i].filePath = file
                /\ nodes[i].definitionName = name})

\* The addEdge/addUndirected calls of orderByGraph, in the order made:
\* each is <<from, to>>.
linkedDefs(nodes, i, nameSeq) ==
    Concat([k \in DOMAIN nameSeq |->
                defByFileAndName(nodes, nodes[i].filePath, nameSeq[k])])

nodeEdgeCalls(nodes, i) ==
    IF nodes[i].changeKind \in {"definition", "global"}
    THEN LET defs == SelectSeq(linkedDefs(nodes, i, collectRelatedNames(nodes[i])),
                               LAMBDA d : d # i)
         IN [k \in DOMAIN defs |-> <<defs[k], i>>]
    ELSE IF nodes[i].changeKind # "operation"
    THEN <<>>
    ELSE LET defs == linkedDefs(nodes, i, nodes[i].introducedDefinitions)
                     \o linkedDefs(nodes, i, collectRelatedNames(nodes[i]))
         IN [k \in DOMAIN defs |-> <<i, defs[k]>>]

edgeCalls(nodes) == Concat([i \in DOMAIN nodes |-> nodeEdgeCalls(nodes, i)])

\* edges.get(from): the Set of targets, in insertion order.
edgesOf(calls, from) ==
    LET mine == SelectSeq(calls, LAMBDA c : c[1] = from)
    IN DedupSeq([k \in DOMAIN mine |-> mine[k][2]])

\* undirected.get(a): the Set of neighbours, in insertion order.
undirectedOf(calls, a) ==
    LET mine == SelectSeq(calls, LAMBDA c : c[1] = a \/ c[2] = a)
    IN DedupSeq([k \in DOMAIN mine |->
                    IF mine[k][1] = a THEN mine[k][2] ELSE mine[k][1]])

\* One iteration of the while loop of buildComponents; w is the stack, the
\* visited set and the component so far.
componentStep(calls, w) ==
    LET current == w.stack[Len(w.stack)]
        fresh == SelectSeq(undirectedOf(calls, current),
                           LAMBDA x : x \notin w.visited)
    IN [stack |-> SubSeq(w.stack, 1, Len(w.stack) - 1) \o fresh,
        visited |-> w.visited \cup Range(fresh),
        component |-> Append(w.component, current)]

RECURSIVE componentWalk(_, _)
componentWalk(calls, w) ==
    IF w.stack = <<>> THEN w ELSE componentWalk(calls, componentStep(calls, w))

RECURSIVE buildComponentsFrom(_, _, _, _, _)
buildComponentsFrom(i, total, calls, visited, components) ==
    IF i > total THEN components
    ELSE IF i \in visited
    THEN buildComponentsFrom(i + 1, total, calls, visited, components)
    ELSE LET walk == componentWalk(calls, [stack |-> <<i>>,
                                           visited |-> visited \cup {i},
                                           component |-> <<>>])
         IN buildComponentsFrom(i + 1, total, calls, walk.visited,
                                Append(components, walk.component))

buildComponents(total, calls) == buildComponentsFrom(1, total, calls, {}, <<>>)

\* componentSortKey: the flags and the (filePath, startLine) of `best`.
RECURSIVE componentBest(_, _, _, _)
componentBest(nodes, component, k, best) ==
    IF k > Len(component) THEN best
    ELSE LET node == nodes[component[k]]
             next == IF node.changeKind = "global" /\ best.changeKind # "global"
                     THEN node
                     ELSE IF CodeUnitLess(node.filePath, best.filePath)
                     THEN node
                     ELSE IF node.filePath = best.filePath
                             /\ node.startLine < best.startLine
                     THEN node
                     ELSE best
         IN componentBest(nodes, component, k + 1, next)

componentSortKey(nodes, component) ==
    LET best == componentBest(nodes, component, 1, nodes[component[1]])
    IN [hasGlobal |-> \E k \in DOMAIN component :
                            nodes[component[k]].changeKind = "global",
        hasOperation |-> \E k \in DOMAIN component :
                            nodes[component[k]].changeKind = "operation",
        filePath |-> best.filePath,
        startLine |-> best.startLine]

\* A comparator of components that leaves the hasOperation flag out.
compareComponentPlaces(aKey, bKey) ==
    IF aKey.hasGlobal # bKey.hasGlobal THEN aKey.hasGlobal
    ELSE IF aKey.filePath # bKey.filePath
         THEN LocaleLess(aKey.filePath, bKey.filePath)
         ELSE aKey.startLine < bKey.startLine

\* The comparator of components.sort in orderByGraph, as "a before b".
compareComponentKeys(aKey, bKey) ==
    IF aKey.hasGlobal # bKey.hasGlobal THEN aKey.hasGlobal
    ELSE IF aKey.hasOperation # bKey.hasOperation THEN aKey.hasOperation
    ELSE IF aKey.filePath # bKey.filePath
         THEN LocaleLess(aKey.filePath, bKey.filePath)
         ELSE aKey.startLine < bKey.startLine

\* An iteration of the loop that queues every out-edge, visited or not.
bfsStepUnguarded(nodes, calls, st) ==
    LET current == Head(st.queue)
        outEdges == StableSort(edgesOf(calls, current),
                            LAMBDA a, b : compareNodes(nodes[a], nodes[b]))
    IN [queue |-> Tail(st.queue) \o outEdges,
        visited |-> st.visited \cup {current},
        ordered |-> IF current \in st.visited THEN st.ordered
                    ELSE Append(st.ordered, current)]

\* One iteration of the while loop of orderComponentLeafFirstBfs.
bfsStep(nodes, calls, st) ==
    LET current == Head(st.queue)
        seen == st.visited \cup {current}
        outEdges == StableSort(edgesOf(calls, current),
                            LAMBDA a, b : compareNodes(nodes[a], nodes[b]))
        nexts == SelectSeq(outEdges, LAMBDA x : x \notin seen)
    IN [queue |-> Tail(st.queue) \o nexts,
        visited |-> seen,
        ordered |-> IF current \in st.visited THEN st.ordered
                    ELSE Append(st.ordered, current)]

RECURSIVE bfsLoop(_, _, _)
bfsLoop(nodes, calls, st) ==
    IF st.queue = <<>> THEN st ELSE bfsLoop(nodes, calls, bfsStep(nodes, calls, st))

\* The state of orderComponentLeafFirstBfs when its while loop starts: the
\* leaves are listed, the roots are queued.
bfsStart(nodes, component, calls) ==
    LET members == Range(component)
        hasOut(id) == \E k \in DOMAIN calls :
                        calls[k][1] = id /\ calls[k][2] \in members
        hasIn(id) == \E k \in DOMAIN calls :
                        calls[k][2] = id /\ calls[k][1] \in members
        byNode(a, b) == compareNodes(nodes[a], nodes[b])
        leaves == StableSort(SelectSeq(component, LAMBDA id : ~hasOut(id)), byNode)
        roots == StableSort(SelectSeq(component, LAMBDA id : ~hasIn(id)), byNode)
    IN [queue |-> roots, visited |-> Range(leaves), ordered |-> leaves]

\* The order without the flush after the loop: what the leaf pass and the
\* walk from the roots listed.
bfsWithoutFlush(nodes, component, st) == st.ordered

\* The flush after the loop: unvisited nodes in tie-break order.
bfsFlush(nodes, component, st) ==
    st.ordered
    \o StableSort(SelectSeq(component, LAMBDA id : id \notin st.visited),
               LAMBDA a, b : compareNodes(nodes[a], nodes[b]))

orderComponentLeafFirstBfs(nodes, component, calls) ==
    bfsFlush(nodes, component,
             bfsLoop(nodes, calls, bfsStart(nodes, component, calls)))

orderedComponents(nodes, calls) ==
    StableSort(buildComponents(Len(nodes), calls),
            LAMBDA a, b : compareComponentKeys(componentSortKey(nodes, a),
                                               componentSortKey(nodes, b)))

orderByGraph(nodes) ==
    LET calls == edgeCalls(nodes)
        comps == orderedComponents(nodes, calls)
        ids == Concat([c \in DOMAIN comps |->
                        orderComponentLeafFirstBfs(nodes, comps[c], calls)])
    IN [k \in DOMAIN ids |-> nodes[ids[k]]]

reorderMainSteps(input) ==
    LET globals == SelectSeq(input, isGlobalStep)
        nonGlobals == SelectSeq(input, LAMBDA s : ~isGlobalStep(s))
        orderedGlobals ==
            StableSort(globals,
                    LAMBDA a, b :
                        IF a.filePath # b.filePath
                        THEN LocaleLess(a.filePath, b.filePath)
                        ELSE a.startLine < b.startLine)
    IN orderedGlobals \o orderByGraph(nonGlobals)

\* ------------------------------------------------------ tourGraph.ts
NoKey == [file |-> None, tag |-> None, segment |-> None,
          startLine |-> 0, endLine |-> 0, name |-> <<>>, step |-> 0]

\* A wrong reading of the operation key: the segment, else the name, and
\* never the step's own range.
opGroupKeyByName(step) ==
    LET base == [NoKey EXCEPT !.file = step.filePath]
        identityName ==
            IF step.qualifiedName # <<>> THEN step.qualifiedName
            ELSE IF step.symbolName # None THEN <<step.symbolName>>
            ELSE <<>>
    IN IF step.segmentId # None
       THEN [base EXCEPT !.tag = "segment", !.segment = step.segmentId]
       ELSE IF identityName # <<>>
       THEN [base EXCEPT !.tag = "name", !.name = identityName]
       ELSE [base EXCEPT !.tag = "step", !.startLine = step.startLine,
                         !.endLine = step.endLine, !.step = step.id]

\* The key of opGroupByKey for an operation step: identityRange, else
\* identityName, else the step's own range and id.
opGroupKey(step) ==
    LET base == [NoKey EXCEPT !.file = step.filePath]
        identityName ==
            IF step.qualifiedName # <<>> THEN step.qualifiedName
            ELSE IF step.symbolName # None THEN <<step.symbolName>>
            ELSE IF step.definitionName # None THEN <<step.definitionName>>
            ELSE <<>>
    IN IF step.segmentId # None
       THEN [base EXCEPT !.tag = "segment", !.segment = step.segmentId]
       ELSE IF step.definitionName # None
       THEN [base EXCEPT !.tag = "range", !.startLine = step.startLine,
                         !.endLine = step.endLine]
       ELSE IF identityName # <<>>
       THEN [base EXCEPT !.tag = "name", !.name = identityName]
       ELSE [base EXCEPT !.tag = "step", !.startLine = step.startLine,
                         !.endLine = step.endLine, !.step = step.id]

\* The id of the node a main step belongs to: `op:${key}` or the step's id.
nodeIdOfStep(step) ==
    IF step.changeKind = "operation"
    THEN [op |-> TRUE, key |-> opGroupKey(step), step |-> 0]
    ELSE [op |-> FALSE, key |-> NoKey, step |-> step.id]

stepLabel(step) ==
    IF step.changeKind = "operation"
    THEN IF step.symbolName # None THEN step.symbolName
         ELSE IF step.definitionName # None THEN step.definitionName
         ELSE "Operation"
    ELSE IF step.changeKind = "definition"
    THEN IF step.definitionName # None THEN step.definitionName
         ELSE IF step.symbolName # None THEN step.symbolName
         ELSE "Definition"
    ELSE IF step.changeKind = "global"
    THEN IF step.definitionName # None THEN step.definitionName
         ELSE IF step.symbolName # None THEN step.symbolName
         ELSE "Global"
    ELSE IF step.symbolName # None THEN step.symbolName ELSE "Operation"

\* A first loop that never looks a key up in opGroupByKey: a node per step.
graphNodesPerStep(mainSteps) ==
    [i \in DOMAIN mainSteps |->
        [id |-> nodeIdOfStep(mainSteps[i]),
         index |-> i - 1,
         kind |-> mainSteps[i].changeKind,
         label |-> stepLabel(mainSteps[i]),
         filePath |-> mainSteps[i].filePath,
         startLine |-> mainSteps[i].startLine,
         endLine |-> mainSteps[i].endLine,
         elementKind |->
            IF mainSteps[i].elementKind = None /\ mainSteps[i].changeKind = "global"
            THEN "global" ELSE mainSteps[i].elementKind,
         qualifiedName |-> mainSteps[i].qualifiedName,
         steps |-> <<mainSteps[i].id>>]]

\* The first loop of buildTourGraph: one node per definition/global step,
\* one per operation key; a merged node keeps the first step's fields, the
\* widest span and every contributing step id in step order.
graphNodes(mainSteps) ==
    LET n == Len(mainSteps)
        idOf(i) == nodeIdOfStep(mainSteps[i])
        firsts == AscSeq({i \in 1..n : \A j \in 1..(i - 1) : idOf(j) # idOf(i)})
        members(i) == {j \in 1..n : idOf(j) = idOf(i)}
        node(i) ==
            LET first == mainSteps[i]
                mine == AscSeq(members(i))
            IN [id |-> idOf(i),
                index |-> i - 1,
                kind |-> first.changeKind,
                label |-> stepLabel(first),
                filePath |-> first.filePath,
                startLine |-> Min({mainSteps[j].startLine : j \in members(i)}),
                endLine |-> Max({mainSteps[j].endLine : j \in members(i)}),
                elementKind |->
                    IF first.elementKind = None /\ first.changeKind = "global"
                    THEN "global" ELSE first.elementKind,
                qualifiedName |-> first.qualifiedName,
                steps |-> [k \in DOMAIN mine |-> mainSteps[mine[k]].id]]
    IN [k \in DOMAIN firsts |-> node(firsts[k])]

canResolve(node) ==
    \/ node.elementKind # None
    \/ node.kind \in {"definition", "global"}

\* resolveDefinitions: by qualified name in the file, else by label in the
\* file, else by label anywhere when exactly one node has it.
resolveDefinitions(nodes, filePath, name, qualifiedName) ==
    LET resolvable == {k \in DOMAIN nodes : canResolve(nodes[k])}
        qualified == {k \in resolvable :
                        /\ qualifiedName # <<>>
                        /\ nodes[k].qualifiedName # <<>>
                        /\ nodes[k].filePath = filePath
                        /\ nodes[k].qualifiedName = qualifiedName}
        local == {k \in resolvable :
                        nodes[k].filePath = filePath /\ nodes[k].label = name}
        global == {k \in resolvable : nodes[k].label = name}
    IN IF qualified # {} THEN qualified
       ELSE IF local # {} THEN local
       ELSE IF Cardinality(global) = 1 THEN global
       ELSE {}

\* collectRelatedCalls: the unit's relatedCalls, then one unqualified call
\* per identifier of its added lines.
collectRelatedCalls(target) ==
    target.relatedCalls
    \o [k \in DOMAIN target.names |->
            [name |-> target.names[k], qualifiedName |-> <<>>]]

\* The edges buildTourGraph pushes for one main step.
stepEdges(nodes, step) ==
    LET fromId == nodeIdOfStep(step)
        related == collectRelatedCalls(step)
        byCall(c) == resolveDefinitions(nodes, step.filePath,
                                        c.name, c.qualifiedName)
        byIntro(nm) == resolveDefinitions(nodes, step.filePath, nm, <<>>)
    IN IF step.changeKind = "operation"
       THEN {[from |-> nodes[d].id, to |-> fromId, type |-> "op-to-def"] :
                d \in UNION ({byCall(related[k]) : k \in DOMAIN related}
                             \cup {byIntro(step.introducedDefinitions[k]) :
                                     k \in DOMAIN step.introducedDefinitions})}
       ELSE IF step.changeKind = "definition"
       THEN {[from |-> nodes[d].id, to |-> fromId, type |-> "def-to-def"] :
                d \in {x \in UNION {byCall(related[k]) : k \in DOMAIN related} :
                        nodes[x].id # fromId}}
       ELSE {}

buildTourGraph(mainSteps) ==
    LET nodes == graphNodes(mainSteps)
    IN [nodes |-> nodes,
        edges |-> UNION {stepEdges(nodes, mainSteps[i]) : i \in DOMAIN mainSteps}]

\* ------------------------------------------------- the tour build

\* A unit as splitChangeUnitsByDefinitions emits it, without its step id.
Unit(kind, file, line, name, names) ==
    [changeKind |-> kind, filePath |-> file,
     startLine |-> line, endLine |-> line,
     definitionName |-> name,
     symbolName |-> None,
     qualifiedName |-> IF name = None THEN <<>> ELSE <<name>>,
     segmentId |-> None,
     elementKind |-> IF kind = "operation" THEN None
                     ELSE IF kind = "global" THEN "global" ELSE "function",
     names |-> names,
     relatedCalls |-> <<>>,
     introducedDefinitions |-> <<>>]

\* The units a tour is built from, in catalogue order. In each of three
\* places: the definition of helper, a definition of caller that names
\* helper, an operation that names nothing and one that names helper. In
\* two of them a global; in one a definition of helper that names caller,
\* which closes a reference cycle with caller.
Places == <<<<"a.ts", 1>>, <<"a.ts", 2>>, <<"B.ts", 1>>>>

UnitsAt(p) ==
    <<Unit("definition", p[1], p[2], "helper", <<"helper">>),
      Unit("definition", p[1], p[2], "caller", <<"caller", "helper">>),
      Unit("operation", p[1], p[2], None, <<>>),
      Unit("operation", p[1], p[2], None, <<"helper">>)>>
    \o (IF p = <<"a.ts", 1>> THEN <<>>
        ELSE <<Unit("global", p[1], p[2], "MAX", <<"MAX">>)>>)
    \o (IF p = <<"a.ts", 2>>
        THEN <<Unit("definition", p[1], p[2], "helper", <<"helper", "caller">>)>>
        ELSE <<>>)

UnitCatalogue == Concat([k \in DOMAIN Places |-> UnitsAt(Places[k])])

TourUnits == Range(UnitCatalogue)

\* buildMainSteps: step `main-${k}` for the k-th unit.
mainStep(unit, k) ==
    [id |-> k] @@ unit

\* orderByGraph before its first statement, with no edge yet.
RunStart ==
    [pc |-> "edges", calls |-> <<>>, i |-> 1,
     walk |-> [stack |-> <<>>, visited |-> {}, component |-> <<>>],
     components |-> <<>>, c |-> 1,
     st |-> [queue |-> <<>>, visited |-> {}, ordered |-> <<>>],
     result |-> <<>>]

\* parseChangeUnitsFromDiff before the first line of the diff.
ParserStart ==
    [pc |-> "lines", read |-> 0, currentFile |-> None,
     currentHunkLines |-> <<>>, currentHunkHeader |-> <<>>,
     units |-> <<>>, result |-> <<>>]

\* buildTourStepsWithExplanations before its call: no group, no request.
ExplainStart ==
    [pc |-> "input", groups |-> <<>>, stepIndex |-> 0, mainSteps |-> <<>>,
     orderedMainSteps |-> <<>>, regionSteps |-> <<>>, i |-> 0,
     outstanding |-> {}, requests |-> <<>>, result |-> <<>>]

\* No payload: nothing stored, or the empty map of load.
NoPayload == [version |-> 0, intent |-> None, records |-> <<>>, savedWith |-> None]

\* Neither the workspace state nor the store file holds a payload.
EmptyStore == [state |-> NoPayload, file |-> NoPayload]

\* No tour has been started.
NotStarted == [intent |-> None, loaded |-> <<>>, steps |-> <<>>, applied |-> {}]

\* groupChangeUnits before its call: the units are still being collected.
GroupingStart ==
    [pc |-> "input", units |-> <<>>, proximityThreshold |-> 0, groups |-> <<>>]

\* The TourController after construction, with no listener registered.
ControllerStart ==
    [steps |-> <<>>, currentIndex |-> -1, status |-> "idle",
     showBackground |-> TRUE, showGlobals |-> TRUE, overallMode |-> FALSE,
     listeners |-> {}, seen |-> <<>>]

\* No file has been analysed yet: the cache of analyses is empty.
NotAnalysed ==
    [filePath |-> None, language |-> None, definitions |-> <<>>,
     tsSourceFile |-> FALSE]

Init ==
    /\ steps = <<>>
    /\ ordered = <<>>
    /\ graph = [nodes |-> <<>>, edges |-> {}]
    /\ phase = "build"
    /\ shuffled = <<>>
    /\ reordered = <<>>
    /\ run = RunStart
    /\ hunk = <<>>
    /\ units = <<>>
    /\ splitPhase = "idle"
    /\ analysis = NotAnalysed
    /\ headFunctions = <<>>
    /\ revisedCalls = <<>>
    /\ bgUnits = <<>>
    /\ bgPhase = "input"
    /\ parser = ParserStart
    /\ headersRead = <<>>
    /\ explain = ExplainStart
    /\ store = EmptyStore
    /\ started = NotStarted
    /\ grouping = GroupingStart
    /\ controller = ControllerStart
    /\ invocations = <<>>

\* One more unit reaches buildMainSteps.
AddUnit ==
    /\ phase = "build"
    /\ Len(steps) < MaxSteps
    /\ \E u \in TourUnits : steps' = Append(steps, mainStep(u, Len(steps) + 1))
    /\ UNCHANGED <<ordered, graph, phase, shuffled, reordered, notTour>>

\* buildTourSteps orders the main steps; the graph view builds its graph
\* over the ordered steps.
BuildTour ==
    /\ phase = "build"
    /\ ordered' = reorderMainSteps(steps)
    /\ graph' = buildTourGraph(ordered')
    /\ phase' = "done"
    /\ UNCHANGED <<steps, shuffled, reordered, notTour>>

Next == AddUnit \/ BuildTour

Spec == Init /\ [][Next]_vars

\* ---------------------------------------------- properties of the order

\* The index of the step with this id in the order returned.
orderIndex(id) == CHOOSE k \in DOMAIN ordered : ordered[k].id = id

\* a sorts strictly before b by (filePath, startLine), paths by locale.
placeBefore(a, b) ==
    IF a.filePath # b.filePath THEN LocaleLess(a.filePath, b.filePath)
    ELSE a.startLine < b.startLine

\* C1. Dependency precedence, in the case the contract spells out: one step
\* is the definition of a name, another step of the same file (an operation
\* or the definition of another name, to which the first does not refer
\* back) names it in its added lines; then the definition's step is before
\* the referring step in the returned order.
C1_HelperBeforeReference ==
    phase = "done" =>
        \A h, r \in DOMAIN steps :
            (/\ steps[h].changeKind = "definition"
             /\ steps[r].changeKind \in {"operation", "definition"}
             /\ steps[r].filePath = steps[h].filePath
             /\ steps[r].definitionName # steps[h].definitionName
             /\ steps[h].definitionName \in Range(steps[r].names)
             /\ steps[r].definitionName \notin Range(steps[h].names)) =>
                orderIndex(steps[h].id) < orderIndex(steps[r].id)

\* C2. Global precedence: in the returned order no step of another kind
\* comes before a global step, whatever the references are, and the global
\* steps are in (filePath, startLine) order.
C2_GlobalPrecedence ==
    phase = "done" =>
        \A i, j \in DOMAIN ordered :
            (i < j /\ ordered[j].changeKind = "global") =>
                /\ ordered[i].changeKind = "global"
                /\ ~placeBefore(ordered[j], ordered[i])

\* C2 happens: a step of another kind was handed in first, then two globals
\* in the reverse of their (filePath, startLine) order.
C2_Witness ==
    /\ phase = "done"
    /\ Len(steps) = 3
    /\ steps[1].changeKind # "global"
    /\ steps[2].changeKind = "global"
    /\ steps[3].changeKind = "global"
    /\ placeBefore(steps[3], steps[2])
    /\ ordered = <<steps[3], steps[2], steps[1]>>

\* The non-global steps as orderByGraph receives them, its edges and its
\* components.
nonGlobalSteps == SelectSeq(steps, LAMBDA s : ~isGlobalStep(s))
orderEdges == edgeCalls(nonGlobalSteps)
orderComponents == buildComponents(Len(nonGlobalSteps), orderEdges)

\* The operation steps without an edge, as indexes of the non-global steps.
leafOperations(nodes, calls) ==
    {i \in DOMAIN nodes :
        /\ nodes[i].changeKind = "operation"
        /\ \A k \in DOMAIN calls : calls[k][1] # i /\ calls[k][2] # i}

\* The definition steps of the components that hold no operation step.
pureDefinitions(nodes, components) ==
    UNION {Range(components[c]) : c \in
            {c \in DOMAIN components :
                \A m \in Range(components[c]) :
                    nodes[m].changeKind = "definition"}}

\* C9 as stated. Leaf operations come before definitions: every operation
\* step without a dependency edge is before every definition step in the
\* returned order.
C9_LeafOperationsBeforeDefinitions ==
    phase = "done" =>
        LET nodes == nonGlobalSteps
            leaves == leafOperations(nodes, orderEdges)
        IN \A o \in leaves : \A d \in DOMAIN nodes :
                nodes[d].changeKind = "definition" =>
                    orderIndex(nodes[o].id) < orderIndex(nodes[d].id)

\* C9 as the code has it. Every operation step without a dependency edge is
\* before every definition step whose component holds no operation; a
\* definition that an operation refers to may come earlier.
C9_LeafOperationsBeforePureDefinitions ==
    phase = "done" =>
        LET nodes == nonGlobalSteps
            calls == edgeCalls(nodes)
            leaves == leafOperations(nodes, calls)
            pure == pureDefinitions(nodes, buildComponents(Len(nodes), calls))
        IN \A o \in leaves : \A d \in pure :
                orderIndex(nodes[o].id) < orderIndex(nodes[d].id)

\* C9 happens: a definition nobody's operation refers to was handed in
\* first and sits at the earlier place, and the edge-free operation still
\* leads it.
C9_Witness ==
    /\ phase = "done"
    /\ \E o \in leafOperations(nonGlobalSteps, orderEdges) :
            \E d \in pureDefinitions(nonGlobalSteps, orderComponents) :
                /\ d < o
                /\ placeBefore(nonGlobalSteps[d], nonGlobalSteps[o])
                /\ orderIndex(nonGlobalSteps[o].id) < orderIndex(nonGlobalSteps[d].id)

\* ------------------------------------------- the order under a shuffle

\* The place of a step's unit in the catalogue.
catalogueIndex(step) ==
    CHOOSE k \in DOMAIN UnitCatalogue : mainStep(UnitCatalogue[k], step.id) = step

\* One more unit reaches buildMainSteps; the units come in catalogue order,
\* so that each collection of units is assembled once.
AddSortedUnit ==
    /\ phase = "build"
    /\ Len(steps) < MaxSteps
    /\ \E k \in DOMAIN UnitCatalogue :
            /\ steps # <<>> => catalogueIndex(steps[Len(steps)]) <= k
            /\ steps' = Append(steps, mainStep(UnitCatalogue[k], Len(steps) + 1))
    /\ UNCHANGED <<ordered, graph, phase, shuffled, reordered, notTour>>

\* reorderMainSteps is called on the steps and on a permutation of them.
Shuffle ==
    /\ phase = "build"
    /\ \E p \in Permutations(DOMAIN steps) :
            shuffled' = [k \in DOMAIN steps |-> steps[p[k]]]
    /\ ordered' = reorderMainSteps(steps)
    /\ reordered' = reorderMainSteps(shuffled')
    /\ phase' = "done"
    /\ UNCHANGED <<steps, graph, notTour>>

NextShuffle == AddSortedUnit \/ Shuffle

SpecShuffle == Init /\ [][NextShuffle]_vars

\* No two steps share a (filePath, startLine).
distinctPlaces ==
    \A i, j \in DOMAIN steps :
        (steps[i].filePath = steps[j].filePath
         /\ steps[i].startLine = steps[j].startLine) => i = j

\* C3 as stated. Ordering determinism: reorderMainSteps returns the same
\* sequence for every permutation of a list of main steps.
C3_OrderIgnoresInputOrder ==
    phase = "done" => reordered = ordered

\* C3 as the code has it. reorderMainSteps returns the same sequence for
\* every permutation of a list of main steps in which no two steps share a
\* (filePath, startLine); steps that share one keep their input order.
C3_OrderIgnoresInputOrderOfDistinctPlaces ==
    (phase = "done" /\ distinctPlaces) => reordered = ordered

\* C3 happens: three steps at three places, one referring to another, were
\* handed in in two different orders and came out in one.
C3_Witness ==
    /\ phase = "done"
    /\ distinctPlaces
    /\ Len(steps) = 3
    /\ shuffled # steps
    /\ orderEdges # <<>>
    /\ reordered = ordered
    /\ ordered # steps
    /\ ordered # shuffled

\* ------------------------------------------------ the graph's nodes

\* buildSegmentId: `${filePath}|${startLine}-${endLine}` of the enclosing
\* definition.
buildSegmentId(filePath, range) == <<filePath, range[1], range[2]>>

\* The enclosing definition of the operation units of the graph model.
EnclosingRange == <<1, 5>>

\* An operation unit over the lines range[1]..range[2]; shape says which of
\* the identity fields it carries.
OperationUnit(file, range, shape) ==
    [Unit("operation", file, range[1], None, <<>>) EXCEPT
        !.endLine = range[2],
        !.segmentId = IF shape = "segment"
                      THEN buildSegmentId(file, EnclosingRange) ELSE None,
        !.definitionName = IF shape \in {"segment", "definition"}
                           THEN "caller" ELSE None,
        !.symbolName = IF shape \in {"segment", "symbol"} THEN "caller" ELSE None,
        !.qualifiedName = IF shape \in {"segment", "definition", "qualified"}
                          THEN <<"caller">> ELSE <<>>,
        !.elementKind = IF shape = "segment" THEN "function" ELSE None]

\* The units of the graph model: operation units of every shape over two
\* ranges of two files, two operation units whose added line names caller,
\* a definition and a global.
GraphUnits ==
    {OperationUnit(f, r, sh) :
        f \in Files, r \in {<<2, 2>>, <<3, 4>>},
        sh \in {"segment", "definition", "qualified", "symbol", "bare"}}
    \cup {[OperationUnit("a.ts", <<2, 2>>, sh) EXCEPT !.names = <<"caller">>] :
            sh \in {"segment", "bare"}}
    \cup {Unit("definition", "a.ts", 1, "caller", <<"caller">>),
          Unit("global", "a.ts", 1, "MAX", <<"MAX">>)}

AddGraphUnit ==
    /\ phase = "build"
    /\ Len(steps) < MaxGraphSteps
    /\ \E u \in GraphUnits : steps' = Append(steps, mainStep(u, Len(steps) + 1))
    /\ UNCHANGED <<ordered, graph, phase, shuffled, reordered, notTour>>

NextGraph == AddGraphUnit \/ BuildTour

SpecGraph == Init /\ [][NextGraph]_vars

\* The nodes of the graph that list the step.
nodesOfStep(id) == {k \in DOMAIN graph.nodes : id \in Range(graph.nodes[k].steps)}

\* The two operation steps are merged: one node lists both.
merged(s, t) == nodesOfStep(s.id) \cap nodesOfStep(t.id) # {}

\* Every step is listed by exactly one node; a definition or global step by
\* a node of its own; a node's steps are in tour order and its span is the
\* least start and the greatest end of its steps.
nodesWellFormed ==
    /\ \A i \in DOMAIN ordered : Cardinality(nodesOfStep(ordered[i].id)) = 1
    /\ \A i \in DOMAIN ordered :
            ordered[i].changeKind # "operation" =>
                \A k \in nodesOfStep(ordered[i].id) :
                    graph.nodes[k].steps = <<ordered[i].id>>
    /\ \A k \in DOMAIN graph.nodes :
            LET mine == {i \in DOMAIN ordered :
                            ordered[i].id \in Range(graph.nodes[k].steps)}
                sorted == AscSeq(mine)
            IN /\ graph.nodes[k].steps = [j \in DOMAIN sorted |-> ordered[sorted[j]].id]
               /\ graph.nodes[k].startLine = Min({ordered[i].startLine : i \in mine})
               /\ graph.nodes[k].endLine = Max({ordered[i].endLine : i \in mine})

\* The qualified name of an operation step, else its symbol name.
nameOf(s) ==
    IF s.qualifiedName # <<>> THEN s.qualifiedName
    ELSE IF s.symbolName # None THEN <<s.symbolName>> ELSE <<>>

tourVars == <<steps, ordered, graph, phase, shuffled, reordered>>

\* The nodes of the run: definitions of one file, the later node at the
\* earlier line, so that the sorts do not follow the node numbers.
RunNodes ==
    [k \in 1..MaxNodes |->
        Unit("definition", "a.ts", MaxNodes + 1 - k, "helper", <<>>)]

\* addEdge(edges, from, to) for any two nodes; the calls are made in
\* ascending order, so each edge set is built once.
AddCall ==
    /\ run.pc = "edges"
    /\ Len(run.calls) < MaxRunCalls
    /\ \E from, to \in 1..MaxNodes :
            /\ from # to
            /\ run.calls # <<>> =>
                LET last == run.calls[Len(run.calls)]
                IN last[1] < from \/ (last[1] = from /\ last[2] < to)
            /\ run' = [run EXCEPT !.calls = Append(@, <<from, to>>)]
    /\ UNCHANGED <<tourVars, uiVars, sessionVars, splitVars, bgVars, parseVars>>

\* buildComponents is entered.
StartOrder ==
    /\ run.pc = "edges"
    /\ run' = [run EXCEPT !.pc = "for"]
    /\ UNCHANGED <<tourVars, uiVars, sessionVars, splitVars, bgVars, parseVars>>

\* The for loop of buildComponents: the next unvisited node opens a
\* component; after the last node the components are sorted.
ComponentFor ==
    /\ run.pc = "for"
    /\ run' =
        IF run.i > MaxNodes
        THEN [run EXCEPT
                !.pc = "component",
                !.components =
                    StableSort(run.components,
                        LAMBDA a, b :
                            compareComponentKeys(componentSortKey(RunNodes, a),
                                                 componentSortKey(RunNodes, b)))]
        ELSE IF run.i \in run.walk.visited
        THEN [run EXCEPT !.i = @ + 1]
        ELSE [run EXCEPT
                !.pc = "while",
                !.walk = [stack |-> <<run.i>>,
                          visited |-> run.walk.visited \cup {run.i},
                          component |-> <<>>]]
    /\ UNCHANGED <<tourVars, uiVars, sessionVars, splitVars, bgVars, parseVars>>

\* The while loop of buildComponents: one pop, or the component is done.
ComponentWhile ==
    /\ run.pc = "while"
    /\ run' =
        IF run.walk.stack = <<>>
        THEN [run EXCEPT !.pc = "for", !.i = @ + 1,
                         !.components = Append(@, run.walk.component)]
        ELSE [run EXCEPT !.walk = componentStep(run.calls, run.walk)]
    /\ UNCHANGED <<tourVars, uiVars, sessionVars, splitVars, bgVars, parseVars>>

\* The for loop over the ordered components: orderComponentLeafFirstBfs
\* is entered for the next one, or orderByGraph returns.
ComponentOrder ==
    /\ run.pc = "component"
    /\ run' =
        IF run.c > Len(run.components)
        THEN [run EXCEPT !.pc = "done"]
        ELSE [run EXCEPT
                !.pc = "bfs",
                !.st = bfsStart(RunNodes, run.components[run.c], run.calls)]
    /\ UNCHANGED <<tourVars, uiVars, sessionVars, splitVars, bgVars, parseVars>>

\* The while loop of orderComponentLeafFirstBfs: one shift of the queue,
\* or the flush and the return.
BfsWhile ==
    /\ run.pc = "bfs"
    /\ run' =
        IF run.st.queue = <<>>
        THEN [run EXCEPT
                !.pc = "component", !.c = @ + 1,
                !.result = @ \o bfsFlush(RunNodes, run.components[run.c], run.st)]
        ELSE [run EXCEPT !.st = bfsStep(RunNodes, run.calls, run.st)]
    /\ UNCHANGED <<tourVars, uiVars, sessionVars, splitVars, bgVars, parseVars>>

NextRun ==
    \/ AddCall \/ StartOrder \/ ComponentFor
    \/ ComponentWhile \/ ComponentOrder \/ BfsWhile

\* A call that has started keeps executing its next statement.
SpecRun == Init /\ [][NextRun]_vars /\ WF_vars(NextRun)

\* Some node can reach itself along the edges.
RECURSIVE reachableFrom(_, _)
reachableFrom(calls, seen) ==
    LET more == seen \cup {calls[k][2] : k \in {k \in DOMAIN calls : calls[k][1] \in seen}}
    IN IF more = seen THEN seen ELSE reachableFrom(calls, more)

hasCycle(calls) ==
    \E k \in DOMAIN calls : calls[k][1] \in reachableFrom(calls, {calls[k][2]})

\* C8. Cycles cannot stall ordering: whatever the edges are, cycles and
\* nodes with several paths to them included, orderByGraph reaches its
\* return, and the order it returns holds every node exactly once.
C8_OrderingTerminates ==
    <>(/\ run.pc = "done"
       /\ Len(run.result) = MaxNodes
       /\ Range(run.result) = 1..MaxNodes)

\* C8 happens: the edges have a cycle and a node with two edges into it,
\* and orderByGraph has returned an order of all nodes.
C8_Witness ==
    /\ run.pc = "done"
    /\ hasCycle(run.calls)
    /\ \E k, l \in DOMAIN run.calls :
            k # l /\ run.calls[k][2] = run.calls[l][2]
    /\ Len(run.result) = MaxNodes
    /\ Range(run.result) = 1..MaxNodes

\* ------------------------------------------------ the unit splitter

\* The revised file the hunks are cut from, line by line, and the
\* definitions the analyzer finds in it.
RevisedFile ==
    <<"const MAX = 1;",
      "// note",
      "class Box {",
      "  size() {",
      "    return 1;",
      "  }",
      "}",
      "",
      "++count;",
      "run();">>

FilePath == "a.ts"

FileDefinitions ==
    <<[name |-> "Box", range |-> <<3, 7>>, kind |-> "class",
       qualifiedName |-> <<"Box">>],
      [name |-> "size", range |-> <<4, 6>>, kind |-> "method",
       qualifiedName |-> <<"Box", "size">>]>>

\* detectLanguageFromPath: the language of the extension of the path.
detectLanguageFromPath(filePath) ==
    IF filePath = "a.ts" THEN "typescript" ELSE None

\* How reading and analysing a file of a supported language can end: the
\* analyzer returns its functions, the analyzer returns nothing, or the read
\* or the analyzer throws.
Outcomes == {"analysed", "empty", "threw"}

\* getDefinitionsForFile: the language and the definitions of the file, and
\* whether the TypeScript source file was built.
getDefinitionsForFile(filePath, outcome) ==
    LET language == detectLanguageFromPath(filePath)
    IN IF language = None \/ outcome = "threw"
       THEN [filePath |-> filePath, language |-> language,
             definitions |-> <<>>, tsSourceFile |-> FALSE]
       ELSE [filePath |-> filePath, language |-> language,
             definitions |-> IF outcome = "analysed" THEN FileDefinitions
                             ELSE <<>>,
             tsSourceFile |-> TRUE]

\* The texts of the removed lines of the model.
RemovedTexts == {"old();", "--count;"}

\* A line of a hunk's diffText: the header, or a tag and the text after it.
HeaderLine(newStart, newLength) ==
    [tag |-> "@@", text |-> "", newStart |-> newStart, newLength |-> newLength]
DiffLine(tag, text) ==
    [tag |-> tag, text |-> text, newStart |-> 0, newLength |-> 0]

\* line.startsWith('+++') || line.startsWith('---')
startsWithTriple(line) ==
    \/ line.tag = "+" /\ line.text = "++count;"
    \/ line.tag = "-" /\ line.text = "--count;"

\* The value of newLine after the first i lines of the diffText, as
\* collectAddedLines and filterDiffTextByAddedLineNumbers count it.
RECURSIVE newLineAfter(_, _)
newLineAfter(diffText, i) ==
    IF i = 0 THEN 0
    ELSE LET line == diffText[i]
             before == newLineAfter(diffText, i - 1)
         IN IF line.tag = "@@" THEN line.newStart
            ELSE IF startsWithTriple(line) THEN before
            ELSE IF line.tag \in {" ", "+"} THEN before + 1
            ELSE before

\* The indexes of the diffText lines collectAddedLines takes as added.
addedIndexes(diffText) ==
    {i \in DOMAIN diffText :
        diffText[i].tag = "+" /\ ~startsWithTriple(diffText[i])}

collectAddedLines(diffText) ==
    LET idx == AscSeq(addedIndexes(diffText))
    IN [k \in DOMAIN idx |->
            [lineNumber |-> newLineAfter(diffText, idx[k] - 1),
             text |-> diffText[idx[k]].text]]

filterDiffTextByAddedLineNumbers(diffText, lineNumbers, includeRemoved) ==
    LET keep == {i \in DOMAIN diffText :
                    \/ diffText[i].tag = "@@"
                    \/ startsWithTriple(diffText[i])
                    \/ /\ diffText[i].tag = "+"
                       /\ newLineAfter(diffText, i - 1) \in lineNumbers
                    \/ diffText[i].tag = "-" /\ includeRemoved}
        idx == AscSeq(keep)
    IN [k \in DOMAIN idx |-> diffText[idx[k]]]

\* The text with its leading blanks trimmed is empty or a comment.
isBlank(text) == text = ""
isComment(text) == text = "// note"

\* A line that is not blank, whether a comment or not.
isNonBlankLine(text, language) == ~isBlank(text)

\* Only a JavaScript, TypeScript or Python file has comment lines.
isMeaningfulAddedLine(text, language) ==
    ~isBlank(text) /\ (language # None => ~isComment(text))

NoHit == [name |-> None, type |-> None]

\* detectDefinition: the regular expressions of a TypeScript file.
detectDefinition(text) ==
    IF text = "class Box {" THEN [name |-> "Box", type |-> "class"]
    ELSE IF text = "const MAX = 1;" THEN [name |-> "MAX", type |-> "variable"]
    ELSE NoHit

lineContainsIdentifier(text, identifier) ==
    \/ text = "class Box {" /\ identifier = "Box"
    \/ text = "  size() {" /\ identifier = "size"
    \/ text = "const MAX = 1;" /\ identifier = "MAX"
    \/ text = "++count;" /\ identifier = "count"
    \/ text = "run();" /\ identifier = "run"

isWithinRange(range, lineNumber) ==
    range[1] <= lineNumber /\ lineNumber <= range[2]

\* candidates.reduce(...): the first definition of the least span.
smallestSpan(defs) ==
    LET span(d) == d.range[2] - d.range[1]
        best == CHOOSE k \in DOMAIN defs :
                    /\ \A j \in DOMAIN defs : span(defs[k]) <= span(defs[j])
                    /\ \A j \in 1..(k - 1) : span(defs[j]) > span(defs[k])
    IN defs[best]

normalizeDefinitionKind(type) ==
    IF type \in {"class", "method", "function"} THEN type ELSE None

mapDefinitionKind(kind) ==
    IF kind \in {"class", "method"} THEN kind ELSE "function"

resolveDefinitionRange(definitions, name, lineNumber, expectedType) ==
    LET expectedKind == normalizeDefinitionKind(expectedType)
        containing == SelectSeq(definitions,
                                LAMBDA d : isWithinRange(d.range, lineNumber))
        ranked == IF expectedKind # None
                  THEN SelectSeq(containing, LAMBDA d : d.kind = expectedKind)
                  ELSE containing
        best == smallestSpan(IF ranked # <<>> THEN ranked ELSE containing)
        named == SelectSeq(definitions, LAMBDA d : d.name = name)
    IN IF containing # <<>>
       THEN [range |-> best.range, kind |-> best.kind,
             qualifiedName |-> best.qualifiedName]
       ELSE IF named # <<>>
       THEN [range |-> named[1].range, kind |-> named[1].kind,
             qualifiedName |-> named[1].qualifiedName]
       ELSE [range |-> <<lineNumber, lineNumber>>, kind |-> None,
             qualifiedName |-> <<>>]

\* isGlobalVariable: outside every definition and, when the TypeScript
\* source file was built, the line of the revised file holds a top-level
\* variable declaration.
isGlobalVariable(definitions, tsSourceFile, lineNumber) ==
    /\ \A k \in DOMAIN definitions :
            ~isWithinRange(definitions[k].range, lineNumber)
    /\ tsSourceFile =>
        /\ lineNumber \in DOMAIN RevisedFile
        /\ RevisedFile[lineNumber] = "const MAX = 1;"

\* resolveVariableRange: the statement of the revised file at the line.
resolveVariableRange(startLine) == <<startLine, startLine>>

\* The hit of the regular-expression pass for one added line, or NoHit.
regexHit(definitions, tsSourceFile, line) ==
    LET hit == detectDefinition(line.text)
        isGlobal == hit.type = "variable"
                    /\ isGlobalVariable(definitions, tsSourceFile, line.lineNumber)
        resolved == resolveDefinitionRange(definitions, hit.name,
                                           line.lineNumber, hit.type)
        type == IF isGlobal THEN "global-variable"
                ELSE IF resolved.kind # None THEN resolved.kind ELSE hit.type
        range == IF type = "global-variable"
                 THEN resolveVariableRange(line.lineNumber)
                 ELSE resolved.range
    IN IF hit = NoHit THEN <<>>
       ELSE IF hit.type = "variable" /\ ~isGlobal THEN <<>>
       ELSE IF range[1] # line.lineNumber THEN <<>>
       ELSE <<[lineNumber |-> line.lineNumber, name |-> hit.name, type |-> type,
               range |-> range, qualifiedName |-> resolved.qualifiedName]>>

\* The hit of the analyzer pass for one definition of the file, or none.
analysisHit(addedLines, def) ==
    LET at == {k \in DOMAIN addedLines : addedLines[k].lineNumber = def.range[1]}
        \* new Map(entries): the last entry of a key wins
        lineText == IF at = {} THEN "" ELSE addedLines[Max(at)].text
    IN IF at = {} THEN <<>>
       ELSE IF ~lineContainsIdentifier(lineText, def.name) THEN <<>>
       ELSE <<[lineNumber |-> def.range[1], name |-> def.name,
               type |-> mapDefinitionKind(def.kind), range |-> def.range,
               qualifiedName |-> def.qualifiedName]>>

\* findDefinitions: both passes, a hit kept when its key is new.
findDefinitions(addedLines, definitions, tsSourceFile) ==
    LET key(h) == <<h.name, h.range, h.type>>
        keep(hits) == {k \in DOMAIN hits :
                        \A j \in 1..(k - 1) : key(hits[j]) # key(hits[k])}
        kept(hits, idx) == [k \in DOMAIN idx |-> hits[idx[k]]]
    IN CHOOSE result \in
        {kept(hits, AscSeq(keep(hits))) : hits \in
            {Concat([k \in DOMAIN addedLines |->
                        regexHit(definitions, tsSourceFile, addedLines[k])])
             \o Concat([k \in DOMAIN definitions |->
                        analysisHit(addedLines, definitions[k])])}} :
        TRUE

classifyChange(diffText) ==
    LET counted == {i \in DOMAIN diffText :
                        diffText[i].tag # "@@" /\ ~startsWithTriple(diffText[i])}
        hasAdd == \E i \in counted : diffText[i].tag = "+"
        hasRemove == \E i \in counted : diffText[i].tag = "-"
    IN IF hasAdd /\ hasRemove THEN "modify"
       ELSE IF hasAdd THEN "add"
       ELSE IF hasRemove THEN "remove"
       ELSE "unknown"

\* groupContiguousLines: the runs of consecutive numbers of an ascending
\* list.
groupContiguousLines(numbers) ==
    LET starts == AscSeq({i \in DOMAIN numbers :
                            i = 1 \/ numbers[i] # numbers[i - 1] + 1})
        stop(k) == IF k = Len(starts) THEN Len(numbers) ELSE starts[k + 1] - 1
    IN [k \in DOMAIN starts |-> SubSeq(numbers, starts[k], stop(k))]

\* splitLinesByDefinitions: a bucket per definition that holds lines of the
\* group, then one for the remaining lines.
splitLinesByDefinitions(lineNumbers, definitions) ==
    LET inside(d) == SelectSeq(lineNumbers,
                               LAMBDA n : isWithinRange(definitions[d].range, n))
        owners == AscSeq({d \in DOMAIN definitions : inside(d) # <<>>})
        used == UNION {Range(inside(d)) : d \in DOMAIN definitions}
        remaining == SelectSeq(lineNumbers, LAMBDA n : n \notin used)
    IN [k \in DOMAIN owners |-> inside(owners[k])]
       \o (IF remaining # <<>> THEN <<remaining>> ELSE <<>>)

NoDefinition == [name |-> None, range |-> <<0, 0>>, kind |-> None,
                 qualifiedName |-> <<>>]

\* findEnclosingDefinition for a TypeScript file.
findEnclosingDefinition(definitions, lineNumber) ==
    LET candidates == SelectSeq(definitions,
                                LAMBDA d : isWithinRange(d.range, lineNumber))
    IN IF candidates = <<>> THEN NoDefinition ELSE smallestSpan(candidates)

deriveContainerName(qualifiedName) ==
    IF Len(qualifiedName) < 2 THEN <<>>
    ELSE SubSeq(qualifiedName, 1, Len(qualifiedName) - 1)

\* A unit as parseChangeUnitsFromDiff makes it of a hunk: the other fields
\* of ChangeUnit are not set.
RawUnit(filePath, range, diffText) ==
    [filePath |-> filePath, range |-> range, diffText |-> diffText,
     changeKind |-> None, changeType |-> None,
     definitionName |-> None, definitionType |-> None, elementKind |-> None,
     symbolName |-> None, qualifiedName |-> <<>>, containerName |-> <<>>,
     segmentId |-> None]

\* parseChangeUnitsFromDiff for one hunk of FilePath: flushHunk.
\* The range of the header as written: no line number is raised to 1.
hunkRangeUnclamped(header) ==
    LET startLine == header.newStart
        endLine == IF header.newLength > 0
                   THEN startLine + header.newLength - 1 ELSE startLine
    IN <<startLine, endLine>>

\* flushHunk: the range of the unit of a hunk header.
hunkRange(header) ==
    LET startLine == Max({1, header.newStart})
        endLine == IF header.newLength > 0
                   THEN startLine + header.newLength - 1 ELSE startLine
    IN <<startLine, endLine>>

parseChangeUnitsFromDiff(diffText) ==
    RawUnit(FilePath, hunkRange(diffText[1]), diffText)

\* The unit of one definition hit.
definitionUnit(unit, addedLines, changeType, def) ==
    LET numbers == {addedLines[k].lineNumber : k \in
                        {k \in DOMAIN addedLines :
                            isWithinRange(def.range, addedLines[k].lineNumber)}}
    IN [unit EXCEPT
            !.range = def.range,
            !.diffText = filterDiffTextByAddedLineNumbers(unit.diffText, numbers, TRUE),
            !.changeKind = IF def.type = "global-variable"
                           THEN "global" ELSE "definition",
            !.changeType = changeType,
            !.definitionName = def.name,
            !.definitionType = IF def.type = "global-variable"
                               THEN "variable" ELSE def.type,
            !.elementKind = IF def.type = "global-variable" THEN "global"
                            ELSE IF def.type \in {"class", "method"} THEN def.type
                            ELSE "function",
            !.qualifiedName = def.qualifiedName,
            !.containerName = IF def.type = "method"
                              THEN deriveContainerName(def.qualifiedName)
                              ELSE <<>>]

\* The fields every operation unit takes from its enclosing definition.
withEnclosing(unit, changeType, enclosing) ==
    [unit EXCEPT
        !.changeKind = "operation",
        !.changeType = changeType,
        !.elementKind = IF unit.elementKind # None THEN unit.elementKind
                        ELSE IF enclosing # NoDefinition
                        THEN mapDefinitionKind(enclosing.kind) ELSE None,
        !.symbolName = IF enclosing # NoDefinition
                       THEN enclosing.name ELSE unit.symbolName,
        !.qualifiedName = IF enclosing # NoDefinition
                          THEN enclosing.qualifiedName ELSE unit.qualifiedName,
        !.definitionName = IF enclosing # NoDefinition
                           THEN enclosing.name ELSE unit.definitionName,
        !.definitionType = IF enclosing # NoDefinition
                           THEN mapDefinitionKind(enclosing.kind)
                           ELSE unit.definitionType,
        !.segmentId = IF enclosing # NoDefinition
                      THEN buildSegmentId(unit.filePath, enclosing.range)
                      ELSE unit.segmentId]

\* The operation unit of one chunk of operational lines.
operationUnit(unit, changeType, lineNumbers, analysisDefinitions) ==
    withEnclosing(
        [unit EXCEPT
            !.range = <<lineNumbers[1], lineNumbers[Len(lineNumbers)]>>,
            !.diffText = filterDiffTextByAddedLineNumbers(
                            unit.diffText, Range(lineNumbers), FALSE)],
        changeType,
        findEnclosingDefinition(analysisDefinitions, lineNumbers[1]))

\* The units of one raw unit, given its added lines, definition hits and
\* change type.
unitsOf(unit, addedLines, definitions, changeType, fileAnalysis) ==
    LET definitionLineNumbers == {definitions[d].lineNumber : d \in DOMAIN definitions}
        operational ==
            {addedLines[k].lineNumber : k \in
                {k \in DOMAIN addedLines :
                    /\ addedLines[k].lineNumber \notin definitionLineNumbers
                    /\ \A d \in DOMAIN definitions :
                        ~isWithinRange(definitions[d].range, addedLines[k].lineNumber)
                    /\ isMeaningfulAddedLine(addedLines[k].text,
                                             fileAnalysis.language)}}
        operationalGroups == groupContiguousLines(AscSeq(operational))
        byDefinition(group) == splitLinesByDefinitions(group, definitions)
        chunks == Concat([g \in DOMAIN operationalGroups |->
                    IF byDefinition(operationalGroups[g]) = <<>>
                    THEN <<operationalGroups[g]>>
                    ELSE byDefinition(operationalGroups[g])])
    IN [d \in DOMAIN definitions |->
            definitionUnit(unit, addedLines, changeType, definitions[d])]
       \o (IF definitions = <<>> /\ operationalGroups = <<>>
           THEN <<withEnclosing(unit, changeType,
                    findEnclosingDefinition(fileAnalysis.definitions,
                                            unit.range[1]))>>
           ELSE [c \in DOMAIN chunks |->
                    operationUnit(unit, changeType, chunks[c],
                                  fileAnalysis.definitions)])

\* splitChangeUnitsByDefinitions for one raw unit, given what
\* getDefinitionsForFile returned for the file of the unit.
splitChangeUnitsByDefinitions(unit, fileAnalysis) ==
    CHOOSE result \in
        {unitsOf(unit, hits[1], hits[2], classifyChange(unit.diffText),
                 fileAnalysis) : hits \in
            {<<addedLines,
               IF fileAnalysis.language # None
               THEN findDefinitions(addedLines, fileAnalysis.definitions,
                                    fileAnalysis.tsSourceFile)
               ELSE <<>>>> :
                addedLines \in {collectAddedLines(unit.diffText)}}} :
        TRUE

\* ------------------------------------------- the splitter on a hunk

newLength(diffText) == diffText[1].newLength
removedCount(diffText) == Cardinality({i \in DOMAIN diffText : diffText[i].tag = "-"})

\* git writes the header of a hunk that starts at a line of the file.
StartHunk ==
    /\ splitPhase = "idle"
    /\ \E newStart \in DOMAIN RevisedFile :
            hunk' = <<HeaderLine(newStart, 0)>>
    /\ splitPhase' = "hunk"
    /\ UNCHANGED <<tourVars, uiVars, sessionVars, run, bgVars, parseVars, units, analysis>>

\* The next line of the revised file enters the hunk, as context or added.
AddNewLine ==
    /\ splitPhase = "hunk"
    /\ newLength(hunk) < MaxHunkLines
    /\ hunk[1].newStart + newLength(hunk) \in DOMAIN RevisedFile
    /\ \E tag \in {" ", "+"} :
            hunk' = Append([hunk EXCEPT ![1].newLength = @ + 1],
                           DiffLine(tag, RevisedFile[hunk[1].newStart + newLength(hunk)]))
    /\ UNCHANGED <<tourVars, uiVars, sessionVars, run, bgVars, parseVars, units, splitPhase, analysis>>

\* A removed line enters the hunk.
AddRemovedLine ==
    /\ splitPhase = "hunk"
    /\ removedCount(hunk) < MaxRemoved
    /\ \E text \in RemovedTexts : hunk' = Append(hunk, DiffLine("-", text))
    /\ UNCHANGED <<tourVars, uiVars, sessionVars, run, bgVars, parseVars, units, splitPhase, analysis>>

\* The hunk is parsed and split.
SplitHunk ==
    /\ splitPhase = "hunk"
    /\ Len(hunk) > 1
    /\ \E unit \in {parseChangeUnitsFromDiff(hunk)} :
            /\ analysis' = getDefinitionsForFile(unit.filePath, "analysed")
            /\ units' = splitChangeUnitsByDefinitions(unit, analysis')
    /\ splitPhase' = "split"
    /\ UNCHANGED <<tourVars, uiVars, sessionVars, run, bgVars, parseVars, hunk>>

NextSplit == StartHunk \/ AddNewLine \/ AddRemovedLine \/ SplitHunk

SpecSplit == Init /\ [][NextSplit]_vars

\* ------------------------------------------- claims on the splitter

\* The line of the revised file that line i of the hunk holds.
lineOfFile(diffText, i) ==
    diffText[1].newStart
        + Cardinality({j \in 2..(i - 1) : diffText[j].tag \in {" ", "+"}})

\* The lines of the revised file that the hunk adds.
addedLinesOfHunk(diffText) ==
    {lineOfFile(diffText, i) : i \in {i \in DOMAIN diffText : diffText[i].tag = "+"}}

\* The lines of the revised file a unit carries: the lines of its range
\* that its diffText keeps as added lines. The lines of RevisedFile differ
\* from one another, so the text of a line tells its number.
carriedLines(unit) ==
    {n \in (unit.range[1]..unit.range[2]) \cap DOMAIN RevisedFile :
        \E i \in DOMAIN unit.diffText :
            unit.diffText[i].tag = "+" /\ unit.diffText[i].text = RevisedFile[n]}

rangesOverlap(r1, r2) == r1[1] <= r2[2] /\ r2[1] <= r1[2]

\* C4: no line of the revised file belongs to two units that the splitter
\* makes of one hunk, neither by their ranges nor by the added lines their
\* diffTexts keep.
C4_SiblingUnitsDisjoint ==
    splitPhase = "split" =>
        \A i, j \in DOMAIN units :
            i < j => /\ ~rangesOverlap(units[i].range, units[j].range)
                     /\ carriedLines(units[i]) \cap carriedLines(units[j]) = {}

\* C5: no meaningful added line of a hunk is lost: every added line that is
\* neither blank nor a comment is carried by a unit made of the hunk.
C5_NoMeaningfulLineLost ==
    splitPhase = "split" =>
        \A n \in addedLinesOfHunk(hunk) :
            isMeaningfulAddedLine(RevisedFile[n], "typescript") =>
                \E u \in DOMAIN units : n \in carriedLines(units[u])

\* All the added lines of the hunk are comments, and there is one.
commentOnly(diffText) ==
    /\ addedLinesOfHunk(diffText) # {}
    /\ \A n \in addedLinesOfHunk(diffText) : isComment(RevisedFile[n])

HeadCatalogue ==
    <<[name |-> "helper", qualifiedName |-> "helper", range |-> <<1, 2>>],
      [name |-> "util", qualifiedName |-> "util", range |-> <<3, 4>>],
      [name |-> "size", qualifiedName |-> "Box.size", range |-> <<5, 6>>]>>

\* The calls the revised file can hold: name is the last identifier of the
\* callee, qualifiedName the identifiers joined by dots.
CallShapes ==
    <<[name |-> "helper", qualifiedName |-> "helper"],
      [name |-> "size", qualifiedName |-> "box.size"],
      [name |-> "log", qualifiedName |-> "console.log"]>>
CallLines == 1..2
UnitRanges == {<<1, 1>>, <<2, 2>>, <<1, 2>>}

\* functionsByName and functionsByQualifiedName: the definitions of a key,
\* in the order of the functions list.
functionsByName(functions) ==
    [key \in {functions[k].name : k \in DOMAIN functions} |->
        SelectSeq(functions, LAMBDA d : d.name = key)]
functionsByQualifiedName(functions) ==
    [key \in {functions[k].qualifiedName : k \in DOMAIN functions} |->
        SelectSeq(functions, LAMBDA d : d.qualifiedName = key)]

NoMatch == [name |-> None, qualifiedName |-> None, range |-> <<0, 0>>]

findMatchingDefinition(call, map) ==
    IF call.qualifiedName \in DOMAIN map THEN map[call.qualifiedName][1]
    ELSE IF call.name \in DOMAIN map THEN map[call.name][1]
    ELSE NoMatch

toRegion(filePath, definition) ==
    [filePath |-> filePath, range |-> definition.range,
     label |-> definition.qualifiedName]

isSameRegion(a, b) == a.filePath = b.filePath /\ a.range = b.range

\* The overlapping calls, none dropped.
overlappingCalls(unit, relativePath, functions, calls, byName, byQualified) ==
    [backgrounds |-> <<>>,
     relatedCalls |-> SelectSeq(calls,
                        LAMBDA call : rangesOverlap(call.range, unit.range))]

buildBackgroundRegionsForUnit(unit, relativePath, functions, calls, byName, byQualified) ==
    LET relatedCalls == SelectSeq(calls,
                            LAMBDA call : rangesOverlap(call.range, unit.range))
        definition(call) ==
            IF findMatchingDefinition(call, byQualified) # NoMatch
            THEN findMatchingDefinition(call, byQualified)
            ELSE findMatchingDefinition(call, byName)
        resolvedCalls == SelectSeq(relatedCalls,
                            LAMBDA call : definition(call) # NoMatch)
        region(k) == toRegion(relativePath, definition(resolvedCalls[k]))
        first == {k \in DOMAIN resolvedCalls :
                    \A j \in 1..(k - 1) : ~isSameRegion(region(j), region(k))}
        idx == AscSeq(first)
    IN [backgrounds |-> [k \in DOMAIN idx |-> region(idx[k])],
        relatedCalls |-> resolvedCalls]

\* attachBackgroundRegions for the units of the file, both analyses made. A
\* field that is not set is the empty list.
attachBackgroundRegions(fileUnits, functions, calls) ==
    [u \in DOMAIN fileUnits |->
        LET built == buildBackgroundRegionsForUnit(
                        fileUnits[u], FilePath, functions, calls,
                        functionsByName(functions),
                        functionsByQualifiedName(functions))
        IN [fileUnits[u] EXCEPT
                !.backgroundRegions = built.backgrounds,
                !.relatedCalls = built.relatedCalls]]

\* The analyzer meets a function of the file at HEAD.
AddHeadFunction ==
    /\ bgPhase = "input"
    /\ \E k \in DOMAIN HeadCatalogue :
        /\ \A j \in DOMAIN headFunctions :
                headFunctions[j].range[1] < HeadCatalogue[k].range[1]
        /\ headFunctions' = Append(headFunctions, HeadCatalogue[k])
    /\ UNCHANGED <<tourVars, uiVars, sessionVars, run, splitVars, parseVars, revisedCalls, bgUnits, bgPhase>>

callRank(call) ==
    LET shape == CHOOSE k \in DOMAIN CallShapes : CallShapes[k].name = call.name
    IN call.range[1] * (Len(CallShapes) + 1) + shape

\* The analyzer meets a call of the revised file, further down the file
\* than the calls before it.
AddRevisedCall ==
    /\ bgPhase = "input"
    /\ Len(revisedCalls) < MaxCalls
    /\ \E k \in DOMAIN CallShapes, line \in CallLines :
        LET call == [name |-> CallShapes[k].name,
                     qualifiedName |-> CallShapes[k].qualifiedName,
                     range |-> <<line, line>>]
        IN /\ \A j \in DOMAIN revisedCalls :
                    callRank(revisedCalls[j]) < callRank(call)
           /\ revisedCalls' = Append(revisedCalls, call)
    /\ UNCHANGED <<tourVars, uiVars, sessionVars, run, splitVars, parseVars, headFunctions, bgUnits, bgPhase>>

\* A unit of the file is given to the resolver.
AddBgUnit ==
    /\ bgPhase = "input"
    /\ Len(bgUnits) < MaxBgUnits
    /\ \E range \in UnitRanges :
        bgUnits' = Append(bgUnits,
                          [filePath |-> FilePath, range |-> range,
                           relatedCalls |-> <<>>, backgroundRegions |-> <<>>])
    /\ UNCHANGED <<tourVars, uiVars, sessionVars, run, splitVars, parseVars, headFunctions, revisedCalls, bgPhase>>

\* attachBackgroundRegions: the file is skipped when its text at HEAD
\* cannot be read or is empty.
AttachBackgroundRegions ==
    /\ bgPhase = "input"
    /\ bgUnits # <<>>
    /\ \E analysed \in BOOLEAN :
        IF analysed
        THEN /\ bgUnits' = attachBackgroundRegions(bgUnits, headFunctions, revisedCalls)
             /\ bgPhase' = "attached"
        ELSE /\ headFunctions = <<>>
             /\ bgUnits' = bgUnits
             /\ bgPhase' = "skipped"
    /\ UNCHANGED <<tourVars, uiVars, sessionVars, run, splitVars, parseVars, headFunctions, revisedCalls>>

NextBg == AddHeadFunction \/ AddRevisedCall \/ AddBgUnit \/ AttachBackgroundRegions

SpecBg == Init /\ [][NextBg]_vars

\* ------------------------------------------- claims on the resolver

\* The file at HEAD holds a function the call can resolve to.
knownAtHead(call) ==
    \E k \in DOMAIN headFunctions :
        \/ headFunctions[k].qualifiedName \in {call.qualifiedName, call.name}
        \/ headFunctions[k].name \in {call.qualifiedName, call.name}

helperAbsentFromHead ==
    \A k \in DOMAIN headFunctions : headFunctions[k].name # "helper"

callsHelper(unit) ==
    \E c \in DOMAIN revisedCalls :
        /\ revisedCalls[c].name = "helper"
        /\ rangesOverlap(revisedCalls[c].range, unit.range)

recordsHelper(unit) ==
    \E r \in DOMAIN unit.relatedCalls : unit.relatedCalls[r].name = "helper"

\* C7 as stated: when helper is absent from the file at HEAD and the lines
\* of a unit call helper, the unit has a relatedCalls entry named helper
\* after attachBackgroundRegions.
C7_NewHelperRecorded ==
    (bgPhase = "attached" /\ helperAbsentFromHead) =>
        \A u \in DOMAIN bgUnits :
            callsHelper(bgUnits[u]) => recordsHelper(bgUnits[u])

\* C7: after attachBackgroundRegions the relatedCalls of a unit are exactly
\* the calls of the revised file that overlap its range and resolve to a
\* function of the file at HEAD, in the order of the calls; a call of a
\* helper that is absent from HEAD is not recorded.
C7_OnlyCallsKnownAtHeadRecorded ==
    bgPhase = "attached" =>
        \A u \in DOMAIN bgUnits :
            /\ bgUnits[u].relatedCalls =
                    SelectSeq(revisedCalls,
                        LAMBDA call :
                            /\ rangesOverlap(call.range, bgUnits[u].range)
                            /\ knownAtHead(call))
            /\ helperAbsentFromHead => ~recordsHelper(bgUnits[u])

\* helper is absent from HEAD, and a unit whose lines call helper and a
\* function known at HEAD has only the second call recorded.
C7_Witness ==
    /\ bgPhase = "attached"
    /\ helperAbsentFromHead
    /\ \E u \in DOMAIN bgUnits :
        /\ callsHelper(bgUnits[u])
        /\ ~recordsHelper(bgUnits[u])
        /\ bgUnits[u].relatedCalls # <<>>

\* ------------------------------------------- claims on the graph edges

\* The kind of the node of the graph with the id.
kindOfNode(id) ==
    LET k == CHOOSE k \in DOMAIN graph.nodes : graph.nodes[k].id = id
    IN graph.nodes[k].kind

\* C11: in the graph of diff-mode steps every op-to-def edge goes from a
\* definition or global node to an operation node, every def-to-def edge
\* joins two definition or global nodes, and no edge starts at an operation
\* node.
C11_EdgesTyped ==
    phase = "done" =>
        \A e \in graph.edges :
            /\ kindOfNode(e.from) \in {"definition", "global"}
            /\ e.type = "op-to-def" => kindOfNode(e.to) = "operation"
            /\ e.type = "def-to-def" => kindOfNode(e.to) \in {"definition", "global"}

\* ------------------------------------------- the diff parser, line by line
\* parseChangeUnitsFromDiff on any sequence of diff lines.

workspaceRoot == "/w"

\* The paths the `+++ ` lines of the model name (after the `b/` prefix is
\* taken off), already normalized.
HeaderPaths == {"a.ts", "n.MD", "/w/a.ts", "/w2/a.ts", "/x/a.ts", "/dev/null"}

\* The characters of the strings of the model.
Chars(str) ==
    CASE str = "/w" -> <<"/", "w">>
      [] str = ".md" -> <<".", "m", "d">>
      [] str = "a.ts" -> <<"a", ".", "t", "s">>
      [] str = "n.MD" -> <<"n", ".", "M", "D">>
      [] str = "/w/a.ts" -> <<"/", "w", "/", "a", ".", "t", "s">>
      [] str = "/w2/a.ts" -> <<"/", "w", "2", "/", "a", ".", "t", "s">>
      [] str = "/x/a.ts" -> <<"/", "x", "/", "a", ".", "t", "s">>
      [] str = "/dev/null" -> <<"/", "d", "e", "v", "/", "n", "u", "l", "l">>

isAbsolute(path) == Chars(path)[1] = "/"

\* The path names a file of the directory root or of a directory below it.
insideDirectory(path, root) ==
    /\ Len(Chars(path)) > Len(Chars(root))
    /\ SubSeq(Chars(path), 1, Len(Chars(root))) = Chars(root)
    /\ Chars(path)[Len(Chars(root)) + 1] = "/"

\* String.prototype.startsWith
startsWith(str, prefix) ==
    /\ Len(Chars(str)) >= Len(Chars(prefix))
    /\ SubSeq(Chars(str), 1, Len(Chars(prefix))) = Chars(prefix)

\* String.prototype.toLowerCase, on the characters.
toLowerCase(chars) ==
    [k \in DOMAIN chars |->
        IF chars[k] = "M" THEN "m" ELSE IF chars[k] = "D" THEN "d" ELSE chars[k]]

\* filePath.toLowerCase().endsWith(suffix)
lowerEndsWith(str, suffix) ==
    LET chars == toLowerCase(Chars(str))
        n == Len(Chars(suffix))
    IN /\ Len(chars) >= n
       /\ SubSeq(chars, Len(chars) - n + 1, Len(chars)) = Chars(suffix)

\* The filter of the units parseChangeUnitsFromDiff returns.
keepsUnit(unit) ==
    LET inWorkspace == IF isAbsolute(unit.filePath)
                       THEN startsWith(unit.filePath, workspaceRoot)
                       ELSE TRUE
        isMarkdown == lowerEndsWith(unit.filePath, ".md")
    IN inWorkspace /\ ~isMarkdown

\* The filter with the test of the directory in place of the prefix test.
keepsUnitInsideDirectory(unit) ==
    LET inWorkspace == IF isAbsolute(unit.filePath)
                       THEN insideDirectory(unit.filePath, workspaceRoot)
                       ELSE TRUE
        isMarkdown == lowerEndsWith(unit.filePath, ".md")
    IN inWorkspace /\ ~isMarkdown

\* The hunk headers of the model: the new side starts at newStart; the
\* length is written (<<n>>) or left out (<<>>).
HeaderStarts == 0..1
HeaderLengths == {<<>>, <<0>>, <<2>>}

\* A hunk header as the diff writes it.
WrittenHeader(newStart, written) ==
    [tag |-> "@@", text |-> "", newStart |-> newStart, written |-> written]

\* Number.parseInt(hunkMatch[4] ?? '1', 10)
parsedLength(written) == IF written = <<>> THEN 1 ELSE written[1]

\* currentHunkHeader = { newStart, newLength }
parseHeader(line) ==
    [newStart |-> line.newStart, newLength |-> parsedLength(line.written)]

\* The lines of a hunk that are neither a header nor a `+++ ` line.
HunkLines == {DiffLine("+", "run();"), DiffLine(" ", "}")}

flushHunk(p) ==
    IF p.currentFile = None \/ p.currentHunkHeader = <<>>
    THEN [p EXCEPT !.currentHunkLines = <<>>, !.currentHunkHeader = <<>>]
    ELSE [p EXCEPT
            !.units = Append(@, RawUnit(p.currentFile,
                                        hunkRange(p.currentHunkHeader[1]),
                                        p.currentHunkLines)),
            !.currentHunkLines = <<>>,
            !.currentHunkHeader = <<>>]

moreLines == parser.pc = "lines" /\ parser.read < MaxDiffLines

\* A line `diff --git ...` is read.
ReadDiffGit ==
    /\ moreLines
    /\ parser' = [flushHunk(parser) EXCEPT !.currentFile = None, !.read = @ + 1]
    /\ UNCHANGED <<tourVars, uiVars, sessionVars, run, splitVars, bgVars, headersRead>>

\* A line `+++ path` is read.
ReadFileHeader ==
    /\ moreLines
    /\ \E path \in HeaderPaths :
        parser' = [parser EXCEPT
                    !.currentFile = IF path = "/dev/null" THEN None ELSE path,
                    !.read = @ + 1]
    /\ UNCHANGED <<tourVars, uiVars, sessionVars, run, splitVars, bgVars, headersRead>>

\* A hunk header is read.
ReadHunkHeader ==
    /\ moreLines
    /\ \E newStart \in HeaderStarts, written \in HeaderLengths :
        LET line == WrittenHeader(newStart, written)
        IN /\ parser' = [flushHunk(parser) EXCEPT
                            !.currentHunkHeader = <<parseHeader(line)>>,
                            !.currentHunkLines = <<line>>,
                            !.read = @ + 1]
           /\ headersRead' = Append(headersRead,
                                [file |-> parser.currentFile, line |-> line])
    /\ UNCHANGED <<tourVars, uiVars, sessionVars, run, splitVars, bgVars>>

\* Any other line is read: it joins the open hunk, when there is one.
ReadHunkLine ==
    /\ moreLines
    /\ \E line \in HunkLines :
        parser' = IF parser.currentHunkHeader # <<>>
                  THEN [parser EXCEPT !.currentHunkLines = Append(@, line),
                                      !.read = @ + 1]
                  ELSE [parser EXCEPT !.read = @ + 1]
    /\ UNCHANGED <<tourVars, uiVars, sessionVars, run, splitVars, bgVars, headersRead>>

\* The last line has been read: the open hunk is flushed and the units
\* are filtered.
EndOfDiff ==
    /\ parser.pc = "lines"
    /\ \E p \in {flushHunk(parser)} :
        parser' = [p EXCEPT !.pc = "done",
                            !.result = SelectSeq(p.units, keepsUnit)]
    /\ UNCHANGED <<tourVars, uiVars, sessionVars, run, splitVars, bgVars, headersRead>>

NextParse ==
    \/ ReadDiffGit \/ ReadFileHeader \/ ReadHunkHeader
    \/ ReadHunkLine \/ EndOfDiff

SpecParse == Init /\ [][NextParse]_vars

\* ------------------------------------------- claims on the diff parser

\* The length of the new side a written header states.
statedLength(line) == IF line.written = <<>> THEN 1 ELSE line.written[1]

\* C12 as stated: the range of a raw unit is
\* [newStart, newStart + max(newLength, 1) - 1] of its hunk header.
C12_RangeFromHeader ==
    \A k \in DOMAIN parser.units :
        LET line == parser.units[k].diffText[1]
        IN parser.units[k].range =
            <<line.newStart,
              line.newStart + Max({statedLength(line), 1}) - 1>>

\* C12: the range of a raw unit is [s, s + max(newLength, 1) - 1] where s
\* is max(newStart, 1) of its hunk header; the header +0,0 gives [1, 1].
C12_RangeFromHeaderFromLineOne ==
    \A k \in DOMAIN parser.units :
        LET line == parser.units[k].diffText[1]
            s == Max({line.newStart, 1})
        IN parser.units[k].range = <<s, s + Max({statedLength(line), 1}) - 1>>

\* A unit of the header +0,0, one of a header without length and one of a
\* header with a length of several lines have been emitted.
C12_Witness ==
    /\ \E k \in DOMAIN parser.units :
        LET line == parser.units[k].diffText[1]
        IN line.newStart = 0 /\ line.written = <<0>>
           /\ parser.units[k].range = <<1, 1>>
    /\ \E k \in DOMAIN parser.units :
        LET line == parser.units[k].diffText[1]
        IN line.newStart = 1 /\ line.written = <<>>
           /\ parser.units[k].range = <<1, 1>>
    /\ \E k \in DOMAIN parser.units :
        LET line == parser.units[k].diffText[1]
        IN line.newStart = 1 /\ line.written = <<2>>
           /\ parser.units[k].range = <<1, 2>>

\* The hunk headers read in a file block, in the order read.
headersOfFiles == SelectSeq(headersRead, LAMBDA h : h.file # None)

\* C13: every raw unit carries the file of the `+++ ` header that was
\* current when its hunk header was read, whatever lines follow the hunk
\* header, and a hunk header read under `+++ /dev/null` (or under no file)
\* gives no unit.
C13_UnitsCarryFileOfHeader ==
    parser.pc = "done" =>
        /\ Len(parser.units) = Len(headersOfFiles)
        /\ \A k \in DOMAIN parser.units :
            /\ parser.units[k].filePath = headersOfFiles[k].file
            /\ parser.units[k].diffText[1] = headersOfFiles[k].line

\* C14: the units returned are the raw units but those of an absolute path
\* outside the directory workspaceRoot and those of a Markdown file; units
\* of a relative path that is not Markdown are kept.
C14_OnlyWorkspaceFilesReturned ==
    parser.pc = "done" =>
        parser.result = SelectSeq(parser.units, keepsUnitInsideDirectory)

\* ------------------------------------------- claims on the change type

\* The change type of a diff text by its added and removed lines.
changeTypeOfLines(diffText) ==
    LET hasAdd == \E i \in DOMAIN diffText : diffText[i].tag = "+"
        hasRemove == \E i \in DOMAIN diffText : diffText[i].tag = "-"
    IN IF hasAdd /\ hasRemove THEN "modify"
       ELSE IF hasAdd THEN "add"
       ELSE IF hasRemove THEN "remove"
       ELSE "unknown"

\* C15: the changeType of every unit of a split is the change type of the
\* unit's own diffText: modify when it holds added and removed lines, add
\* when only added lines, remove when only removed lines, unknown when
\* neither.
C15_ChangeTypeOfOwnDiffText ==
    splitPhase = "split" =>
        \A u \in DOMAIN units :
            units[u].changeType = changeTypeOfLines(units[u].diffText)

\* ------------------------- the splitter on a file whose analysis may fail

\* The paths a raw unit can carry: a TypeScript file and a plain text file.
SourceFiles == {"a.ts", "a.txt"}

\* The hunk is parsed and split; reading and analysing the file of the unit
\* ends in one of the outcomes.
SplitFile ==
    /\ splitPhase = "hunk"
    /\ Len(hunk) > 1
    /\ \E filePath \in SourceFiles, outcome \in Outcomes :
        \E unit \in {[parseChangeUnitsFromDiff(hunk) EXCEPT !.filePath = filePath]} :
            /\ analysis' = getDefinitionsForFile(filePath, outcome)
            /\ units' = splitChangeUnitsByDefinitions(unit, analysis')
    /\ splitPhase' = "split"
    /\ UNCHANGED <<tourVars, uiVars, sessionVars, run, bgVars, parseVars, hunk>>

NextDegrade == StartHunk \/ AddNewLine \/ AddRemovedLine \/ SplitFile

SpecDegrade == Init /\ [][NextDegrade]_vars

\* C16: when the analysis of the file of a hunk yields no definitions (the
\* read or the analyzer failed, or the extension is not supported), the
\* splitter still returns units for the hunk and every one of them is an
\* operation unit.
C16_NoDefinitionsGivesOperationsOnly ==
    (splitPhase = "split" /\ analysis.definitions = <<>>) =>
        /\ units # <<>>
        /\ \A k \in DOMAIN units : units[k].changeKind = "operation"

\* ------------------------------ the explanation requests of one build

MaxExplainUnits == 2

\* The code regions a unit can carry as background: the first line of a
\* class of a.ts, a function of a.ts and a function of B.ts.
BackgroundRegions ==
    {[filePath |-> "a.ts", range |-> <<3, 3>>, label |-> "Box"],
     [filePath |-> "a.ts", range |-> <<1, 2>>, label |-> "helper"],
     [filePath |-> "B.ts", range |-> <<1, 2>>, label |-> "helper"]}

\* unit.backgroundRegions as attachBackgroundRegions leaves it: no region
\* twice in one unit.
RegionLists ==
    {<<>>} \cup {<<r>> : r \in BackgroundRegions}
           \cup ({<<r, q>> : r, q \in BackgroundRegions}
                    \ {<<r, r>> : r \in BackgroundRegions})

\* The units of the groups: a definition of helper and an operation that
\* names it, each with its background regions.
ExplainUnits ==
    {[backgroundRegions |-> regions] @@ unit :
        unit \in {Unit("definition", "a.ts", 1, "helper", <<"helper">>),
                  Unit("operation", "a.ts", 2, None, <<"helper">>)},
        regions \in RegionLists}

buildRegionKey(region) == <<region.filePath, region.range, region.label>>

\* The requests of the explanation endpoint: for a main step, for a region.
mainRequest(stepIndex) ==
    [kind |-> "main", id |-> stepIndex, region |-> <<>>]
regionRequest(entry) ==
    [kind |-> "background", id |-> entry.step.id, region |-> entry.key]

\* The regions of the ordered main steps, in the order the loops of
\* collectBackgroundSteps meet them.
regionsMet(orderedMainSteps) ==
    Concat([k \in DOMAIN orderedMainSteps |->
                orderedMainSteps[k].backgroundRegions])

\* A step per region met, whether or not its key was met before.
collectBackgroundStepsPerUnit(mainSteps) ==
    CHOOSE collected \in
        {[orderedMainSteps |-> om,
          regionSteps |->
            [n \in DOMAIN regionsMet(om) |->
                [key |-> buildRegionKey(regionsMet(om)[n]),
                 step |-> [id |-> n, type |-> "background",
                           target |-> regionsMet(om)[n],
                           explanation |-> ""]]]] :
            om \in {reorderMainSteps(mainSteps)}} :
        TRUE

\* regionByKey and regionSteps after the loops: a step for the first region
\* of each key, numbered in that order.
regionStepsOf(met) ==
    LET first == {j \in DOMAIN met :
                    \A h \in 1..(j - 1) :
                        buildRegionKey(met[h]) # buildRegionKey(met[j])}
    IN CHOOSE entries \in
        {[n \in DOMAIN idx |->
            [key |-> buildRegionKey(met[idx[n]]),
             step |-> [id |-> n, type |-> "background",
                       target |-> met[idx[n]], explanation |-> ""]]] :
            idx \in {AscSeq(first)}} :
        TRUE

\* main.dependsOn: the steps of the regions of the main step, by id.
dependsOnOf(main, regionSteps) ==
    [j \in DOMAIN main.backgroundRegions |->
        (CHOOSE n \in DOMAIN regionSteps :
            regionSteps[n].key = buildRegionKey(main.backgroundRegions[j]))]

collectBackgroundSteps(mainSteps) ==
    CHOOSE collected \in
        {[orderedMainSteps |->
            [k \in DOMAIN pair[1] |->
                [dependsOn |-> dependsOnOf(pair[1][k], pair[2])] @@ pair[1][k]],
          regionSteps |-> pair[2]] :
            pair \in {<<om, regionStepsOf(regionsMet(om))>> :
                        om \in {reorderMainSteps(mainSteps)}}} :
        TRUE

\* /^[A-Z][A-Za-z0-9_]*$/.test(label) ? 0 : 1
backgroundRank(label) == IF label = "Box" THEN 0 ELSE 1

orderBackgroundSteps(bgSteps) ==
    StableSort(bgSteps,
        LAMBDA a, b :
            IF backgroundRank(a.target.label) # backgroundRank(b.target.label)
            THEN backgroundRank(a.target.label) < backgroundRank(b.target.label)
            ELSE IF a.target.filePath # b.target.filePath
            THEN LocaleLess(a.target.filePath, b.target.filePath)
            ELSE a.target.range[1] < b.target.range[1])

\* One more unit joins the groups handed to the build.
AddExplainUnit ==
    /\ explain.pc = "input"
    /\ Len(explain.groups) < MaxExplainUnits
    /\ \E unit \in ExplainUnits :
            explain' = [explain EXCEPT !.groups = Append(@, unit)]
    /\ UNCHANGED <<tourVars, uiVars, run, splitVars, bgVars, parseVars, store, started>>

\* buildTourStepsWithExplanations is called: buildMainStepsAsync starts.
CallBuild ==
    /\ explain.pc = "input"
    /\ explain' = [explain EXCEPT !.pc = "main"]
    /\ UNCHANGED <<tourVars, uiVars, run, splitVars, bgVars, parseVars, store, started>>

\* buildMainStepsAsync: the next unit's explanation is requested.
RequestMain ==
    /\ explain.pc = "main"
    /\ explain.stepIndex < Len(explain.groups)
    /\ explain' = [explain EXCEPT
            !.stepIndex = @ + 1,
            !.outstanding = @ \cup {mainRequest(explain.stepIndex + 1)},
            !.requests = Append(@, mainRequest(explain.stepIndex + 1)),
            !.pc = "awaitMain"]
    /\ UNCHANGED <<tourVars, uiVars, run, splitVars, bgVars, parseVars, store, started>>

\* The awaited main explanation arrives: the main step is pushed.
ReceiveMain ==
    /\ explain.pc = "awaitMain"
    /\ explain' = [explain EXCEPT
            !.outstanding = @ \ {mainRequest(explain.stepIndex)},
            !.mainSteps = Append(@,
                [type |-> "main", explanation |-> "explained"]
                @@ mainStep(explain.groups[explain.stepIndex], explain.stepIndex)),
            !.pc = "main"]
    /\ UNCHANGED <<tourVars, uiVars, run, splitVars, bgVars, parseVars, store, started>>

\* buildBackgroundStepsForTourAsync starts: collectBackgroundSteps.
CollectBackgroundSteps ==
    /\ explain.pc = "main"
    /\ explain.stepIndex = Len(explain.groups)
    /\ \E collected \in {collectBackgroundSteps(explain.mainSteps)} :
            explain' = [explain EXCEPT
                !.orderedMainSteps = collected.orderedMainSteps,
                !.regionSteps = collected.regionSteps,
                !.pc = "background"]
    /\ UNCHANGED <<tourVars, uiVars, run, splitVars, bgVars, parseVars, store, started>>

\* The explanation of the next region step is requested.
RequestBackground ==
    /\ explain.pc = "background"
    /\ explain.i < Len(explain.regionSteps)
    /\ explain' = [explain EXCEPT
            !.i = @ + 1,
            !.outstanding = @ \cup {regionRequest(explain.regionSteps[explain.i + 1])},
            !.requests = Append(@, regionRequest(explain.regionSteps[explain.i + 1])),
            !.pc = "awaitBackground"]
    /\ UNCHANGED <<tourVars, uiVars, run, splitVars, bgVars, parseVars, store, started>>

\* The awaited background explanation arrives and is put on its step.
ReceiveBackground ==
    /\ explain.pc = "awaitBackground"
    /\ explain' = [explain EXCEPT
            !.outstanding = @ \ {regionRequest(explain.regionSteps[explain.i])},
            !.regionSteps[explain.i].step.explanation = "explained",
            !.pc = "background"]
    /\ UNCHANGED <<tourVars, uiVars, run, splitVars, bgVars, parseVars, store, started>>

\* The awaited request rejects: the await throws and the build rejects.
RequestRejects ==
    /\ explain.pc \in {"awaitMain", "awaitBackground"}
    /\ explain' = [explain EXCEPT !.outstanding = {}, !.pc = "rejected"]
    /\ UNCHANGED <<tourVars, uiVars, run, splitVars, bgVars, parseVars, store, started>>

\* Every region step is explained: the ordered background steps and the
\* ordered main steps are returned.
ReturnSteps ==
    /\ explain.pc = "background"
    /\ explain.i = Len(explain.regionSteps)
    /\ explain' = [explain EXCEPT
            !.result =
                [k \in DOMAIN explain.regionSteps |-> explain.regionSteps[k].step.id]
                \o [k \in DOMAIN explain.orderedMainSteps |->
                        explain.orderedMainSteps[k].id],
            !.pc = "done"]
    /\ UNCHANGED <<tourVars, uiVars, run, splitVars, bgVars, parseVars, store, started>>

NextExplain ==
    \/ AddExplainUnit \/ CallBuild \/ RequestMain \/ ReceiveMain
    \/ CollectBackgroundSteps \/ RequestBackground \/ ReceiveBackground
    \/ RequestRejects \/ ReturnSteps

SpecExplain == Init /\ [][NextExplain]_vars

\* The requests issued so far of one kind, in the order of issue.
requestsOfKind(kind) ==
    SelectSeq(explain.requests, LAMBDA r : r.kind = kind)

\* The distinct regions of the units handed to the build.
regionsOfGroups ==
    UNION {Range(explain.groups[k].backgroundRegions) : k \in DOMAIN explain.groups}

\* C17: during buildTourStepsWithExplanations at most one explanation
\* request is outstanding at any time, no request is issued twice, every
\* request for a main step is issued before every request for a background
\* region, and the finished build has issued exactly one request per main
\* step and exactly one per distinct background region.
C17_RequestsSequential ==
    /\ Cardinality(explain.outstanding) <= 1
    /\ \A m, n \in DOMAIN explain.requests :
            /\ (m # n => explain.requests[m] # explain.requests[n])
            /\ (m < n => ~(explain.requests[m].kind = "background"
                           /\ explain.requests[n].kind = "main"))
    /\ explain.pc = "done" =>
        /\ Len(requestsOfKind("main")) = Len(explain.groups)
        /\ {r.id : r \in Range(requestsOfKind("main"))} = DOMAIN explain.groups
        /\ Len(requestsOfKind("background")) = Cardinality(regionsOfGroups)
        /\ {r.region : r \in Range(requestsOfKind("background"))}
            = {<<g.filePath, g.range, g.label>> : g \in regionsOfGroups}

\* A finished build of two units that share a region and carry another one.
C17_Witness ==
    /\ explain.pc = "done"
    /\ Len(explain.groups) = 2
    /\ Cardinality(regionsOfGroups) = 2
    /\ Len(explain.groups[1].backgroundRegions)
        + Len(explain.groups[2].backgroundRegions) = 3
    /\ Len(explain.requests) = 4

\* ------------------------------------------- the explanation store

\* The intents a tour is started with: none, and texts with and without
\* blanks around them.
Intents == {None, "fix", " fix ", "add"}

\* String.prototype.trim on the intents of the model.
trim(text) == IF text = " fix " THEN "fix" ELSE text

\* intent?.trim() || ''
normalizedIntent(intent) == IF intent = None THEN "" ELSE trim(intent)

\* The steps a diff can give: a main step, a background step of the same
\* file and range, and a main step of another range.
StepShapes ==
    <<[type |-> "main", filePath |-> "a.ts", range |-> <<1, 2>>],
      [type |-> "background", filePath |-> "a.ts", range |-> <<1, 2>>],
      [type |-> "main", filePath |-> "a.ts", range |-> <<4, 6>>]>>

\* `${step.type}|${filePath}|${range.startLine}-${range.endLine}`
buildStepKey(step) == <<step.type, step.filePath, step.range[1], step.range[2]>>

Placeholder == <<"placeholder">>

\* buildTourSteps: the steps of the diff with placeholder explanations.
buildTourSteps(shapes) ==
    [k \in DOMAIN shapes |->
        [type |-> shapes[k].type, filePath |-> shapes[k].filePath,
         range |-> shapes[k].range, explanation |-> Placeholder]]

\* buildTourStepsWithExplanations: each step with the explanation the
\* generator gives for it under the intent.
generatedSteps(shapes, intent) ==
    [k \in DOMAIN shapes |->
        [type |-> shapes[k].type, filePath |-> shapes[k].filePath,
         range |-> shapes[k].range,
         explanation |-> <<"explanation", buildStepKey(shapes[k]), intent>>]]

\* The payload save writes. savedWith is history: the intent as given.
payloadOf(tourSteps, intent) ==
    [version |-> 1,
     intent |-> IF normalizedIntent(intent) = "" THEN None
                ELSE normalizedIntent(intent),
     records |-> [k \in DOMAIN tourSteps |->
                    [key |-> buildStepKey(tourSteps[k]),
                     type |-> tourSteps[k].type,
                     filePath |-> tourSteps[k].filePath,
                     startLine |-> tourSteps[k].range[1],
                     endLine |-> tourSteps[k].range[2],
                     explanation |-> tourSteps[k].explanation]],
     savedWith |-> intent]

\* A load that never looks at the intent.
intentIgnored(stored, intent) == FALSE

intentMismatch(stored, intent) ==
    normalizedIntent(stored) # normalizedIntent(intent)

\* load: the payload whose records make the returned map, from the
\* workspace state if it has records, else from the store file; NoPayload
\* for the empty map.
load(intent) ==
    IF store.state.records # <<>>
    THEN IF intentMismatch(store.state.intent, intent) THEN NoPayload
         ELSE store.state
    ELSE IF store.file.records # <<>>
    THEN IF intentMismatch(store.file.intent, intent) THEN NoPayload
         ELSE store.file
    ELSE NoPayload

\* new Map(records.map(...)).get(key): the last record of the key, or none.
storedGet(records, key) ==
    LET at == {k \in DOMAIN records : records[k].key = key}
    IN IF at = {} THEN <<>> ELSE <<records[Max(at)]>>

\* The sequences of step shapes a diff can give: startTour builds a tour
\* only of a diff with at least one unit.
Diffs ==
    {<<StepShapes[1]>>, <<StepShapes[3]>>,
     <<StepShapes[1], StepShapes[3]>>, <<StepShapes[2], StepShapes[1]>>}

\* startTour with stored explanations: the steps are rebuilt and each takes
\* the explanation of the record of its key.
StartTourFromStore ==
    \E intent \in Intents, shapes \in Diffs :
        \E stored \in {load(intent)} :
            /\ stored.records # <<>>
            /\ started' =
                [intent |-> intent,
                 loaded |-> <<stored>>,
                 steps |->
                    [k \in DOMAIN shapes |->
                        IF storedGet(stored.records, buildStepKey(shapes[k])) # <<>>
                        THEN [buildTourSteps(shapes)[k] EXCEPT
                                !.explanation =
                                    storedGet(stored.records,
                                              buildStepKey(shapes[k]))[1].explanation]
                        ELSE buildTourSteps(shapes)[k]],
                 applied |->
                    {[step |-> shapes[k],
                      record |-> storedGet(stored.records, buildStepKey(shapes[k]))[1]] :
                        k \in {k \in DOMAIN shapes :
                                storedGet(stored.records, buildStepKey(shapes[k])) # <<>>}}]
            /\ UNCHANGED <<tourVars, uiVars, run, splitVars, bgVars, parseVars, explain, store>>

\* startTour with nothing stored for the intent: the steps are generated,
\* or built with placeholders when the generator fails, and saved; the
\* write of the store file can fail after the workspace state is updated,
\* and startTour then ends in its catch without showing the steps.
StartTourAndSave ==
    \E intent \in Intents, shapes \in Diffs, generated, written \in BOOLEAN :
        \E tourSteps \in {IF generated THEN generatedSteps(shapes, intent)
                          ELSE buildTourSteps(shapes)} :
            /\ load(intent).records = <<>>
            /\ store' = [state |-> payloadOf(tourSteps, intent),
                         file |-> IF written THEN payloadOf(tourSteps, intent)
                                  ELSE store.file]
            /\ started' = [intent |-> intent, loaded |-> <<>>,
                           steps |-> IF written THEN tourSteps ELSE <<>>,
                           applied |-> {}]
            /\ UNCHANGED <<tourVars, uiVars, run, splitVars, bgVars, parseVars, explain>>

\* The command that clears the stored explanations.
ClearStore ==
    /\ store # EmptyStore
    /\ store' = EmptyStore
    /\ UNCHANGED <<tourVars, uiVars, run, splitVars, bgVars, parseVars, explain, started>>

\* The workspace is opened where its workspace state holds no payload; the
\* store file is in the workspace folder and stays.
OpenWithoutState ==
    /\ store.state # NoPayload
    /\ store' = [store EXCEPT !.state = NoPayload]
    /\ UNCHANGED <<tourVars, uiVars, run, splitVars, bgVars, parseVars, explain, started>>

NextStore ==
    StartTourFromStore \/ StartTourAndSave \/ ClearStore \/ OpenWithoutState

SpecStore == Init /\ [][NextStore]_vars

\* C18: a started tour applies a stored explanation to a rebuilt step only
\* if the intent the explanations were saved with and the intent of the
\* tour are equal after trimming and the type, file and range of the step
\* are those of the stored record; a tour whose trimmed intent differs from
\* the saved one applies nothing.
C18_StoredAppliedOnlyOnSameIntentAndKey ==
    /\ \A a \in started.applied :
        /\ started.loaded # <<>>
        /\ normalizedIntent(started.loaded[1].savedWith)
            = normalizedIntent(started.intent)
        /\ a.record.type = a.step.type
        /\ a.record.filePath = a.step.filePath
        /\ a.record.startLine = a.step.range[1]
        /\ a.record.endLine = a.step.range[2]
        /\ \E k \in DOMAIN started.steps :
            /\ started.steps[k].type = a.step.type
            /\ started.steps[k].range = a.step.range
            /\ started.steps[k].explanation = a.record.explanation
    /\ \A intent \in Intents :
        \A payload \in {store.state, store.file} :
            (/\ payload.records # <<>>
             /\ normalizedIntent(payload.savedWith) # normalizedIntent(intent)) =>
                load(intent) # payload

\* A tour started with " fix " after a save with "fix": the stored
\* explanation of one step is applied, and a step of another key keeps its
\* placeholder.
C18_Witness ==
    /\ started.intent = " fix "
    /\ started.loaded # <<>>
    /\ started.loaded[1].savedWith = "fix"
    /\ Cardinality(started.applied) = 1
    /\ Len(started.steps) = 2
    /\ \E k \in DOMAIN started.steps : started.steps[k].explanation = Placeholder
    /\ \E k \in DOMAIN started.steps :
            started.steps[k].explanation[1] = "explanation"

\* ------------------------------------------- the order as a permutation

\* C19: the list reorderMainSteps returns holds every input step exactly
\* once and nothing else, whether or not the references of the steps form a
\* cycle.
C19_OrderingIsPermutation ==
    phase = "done" =>
        /\ Len(ordered) = Len(steps)
        /\ \A i \in DOMAIN steps :
            Cardinality({k \in DOMAIN ordered : ordered[k] = steps[i]}) = 1

\* A tour of a global step and two definitions that refer to each other:
\* the two are neither leaves nor roots and reach the order by the flush.
C19_Witness ==
    /\ phase = "done"
    /\ Len(steps) = MaxSteps
    /\ \E g \in DOMAIN steps : isGlobalStep(steps[g])
    /\ \E a, b \in DOMAIN nonGlobalSteps :
        /\ a # b
        /\ <<a, b>> \in Range(orderEdges)
        /\ <<b, a>> \in Range(orderEdges)

\* ------------------------------- the orderer and the graph side by side

\* The references the orderer links: a non-global step and the definition
\* step it is linked to, by step id.
ordererLinks ==
    LET nodes == nonGlobalSteps
    IN UNION {{<<nodes[i].id,
                 nodes[IF nodes[i].changeKind = "operation"
                       THEN call[2] ELSE call[1]].id>> :
                    call \in Range(nodeEdgeCalls(nodes, i))} :
              i \in DOMAIN nodes}

\* The references the graph resolves between non-global steps: a step of
\* the node an edge ends at and a step of the node it starts from.
graphLinks ==
    LET nodeOf(id) == graph.nodes[CHOOSE k \in DOMAIN graph.nodes :
                                    graph.nodes[k].id = id]
        ids == {nonGlobalSteps[k].id : k \in DOMAIN nonGlobalSteps}
    IN UNION {{<<r, d>> : r \in Range(nodeOf(e.to).steps) \cap ids,
                          d \in Range(nodeOf(e.from).steps) \cap ids} :
              e \in graph.edges}

\* C20: over the non-global steps of a tour, the orderer links a
\* referencing step to a definition step exactly when the graph builder
\* resolves the reference to the node of that definition.
C20_OrdererAgreesWithGraph ==
    phase = "done" => ordererLinks = graphLinks

\* ------------------------------------------------- edges of the graph

\* C21: no edge of the graph, of either type, starts and ends at the same
\* node, also when the added lines of an operation step name the definition
\* that encloses it.
C21_NoSelfEdges ==
    phase = "done" => \A e \in graph.edges : e.from # e.to

\* ------------------------------------- removed lines of the split units

\* The removed lines a diffText holds, as texts.
removedLinesOf(diffText) ==
    {diffText[i].text : i \in {i \in DOMAIN diffText : diffText[i].tag = "-"}}

\* C22: every operation unit the splitter emits has a diffText without a
\* removed line, and every definition or global unit keeps the removed
\* lines of its hunk.
C22_OperationUnitsCarryNoRemovedLines ==
    splitPhase = "split" =>
        \A k \in DOMAIN units :
            /\ units[k].changeKind = "operation" =>
                    removedLinesOf(units[k].diffText) = {}
            /\ units[k].changeKind \in {"definition", "global"} =>
                    removedLinesOf(units[k].diffText) = removedLinesOf(hunk)

\* ------------------------------------------------ grouping: groupChangeUnits
\* groupChangeUnits(units, options) as one call: the change units of a diff
\* are collected, then grouped with the proximityThreshold of the options.
MaxGroupUnits == 3

\* The files of the units: a.ts is read and parsed, gone.ts is not on disk
\* (safeReadFile returns undefined, no source file is made).
GroupFiles == {"a.ts", "gone.ts"}
ReadableFiles == {"a.ts"}

\* The named declarations of a.ts: the class Widget on lines 1..12 and its
\* method render on lines 3..4; line 14 lies in no named declaration.
SymbolSpans ==
    {[name |-> "Widget", startLine |-> 1, endLine |-> 12],
     [name |-> "render", startLine |-> 3, endLine |-> 4]}

GroupRanges == {<<1, 1>>, <<3, 3>>, <<5, 5>>, <<2, 8>>, <<12, 12>>, <<14, 14>>}

\* options.proximityThreshold: absent (the empty sequence), or a number.
ThresholdOptions == {<<>>, <<2>>}

\* options.proximityThreshold ?? 5
proximityThresholdOf(option) == IF option = <<>> THEN 5 ELSE option[1]

\* findEnclosingSymbolName: the name of the named node of the smallest span
\* that holds the start of the line, undefined when there is none.
findEnclosingSymbolName(line) ==
    LET hits == {n \in SymbolSpans : n.startLine <= line /\ line <= n.endLine}
        span(n) == n.endLine - n.startLine
    IN  IF hits = {} THEN None
        ELSE (CHOOSE n \in hits : \A m \in hits : span(n) <= span(m)).name

\* The first loop over fileUnits: a unit of a parsed file takes the name of
\* its enclosing symbol when there is one, and keeps its own otherwise.
withSymbolName(unit) ==
    LET symbolName == findEnclosingSymbolName(unit.range[1])
    IN  IF unit.filePath \in ReadableFiles /\ symbolName # None
        THEN [unit EXCEPT !.symbolName = symbolName]
        ELSE unit

mergeRanges(a, b) == <<Min({a[1], b[1]}), Max({a[2], b[2]})>>

\* The keys of byFile in insertion order: each filePath at its first unit.
byFileKeys(unitSeq) == DedupSeq([k \in DOMAIN unitSeq |-> unitSeq[k].filePath])

startLineLess(a, b) == a.range[1] < b.range[1]

\* The second loop over the sorted fileUnits: a unit joins currentGroup (the
\* last group made for the file) when file and symbolName are the same and it
\* starts at most proximityThreshold lines after the end of the group's
\* range; otherwise it opens the next group of the file.
RECURSIVE groupFileUnits(_, _, _, _)
groupFileUnits(fileUnits, proximityThreshold, groupIndex, fileGroups) ==
    IF fileUnits = <<>> THEN fileGroups
    ELSE
        LET unit == Head(fileUnits)
            n == Len(fileGroups)
            joins ==
                /\ n > 0
                /\ fileGroups[n].filePath = unit.filePath
                /\ fileGroups[n].symbolName = unit.symbolName
                /\ unit.range[1] - fileGroups[n].range[2] <= proximityThreshold
            id == <<unit.filePath,
                    IF unit.symbolName = None THEN "top-level" ELSE unit.symbolName,
                    groupIndex + 1>>
        IN  IF joins
            THEN groupFileUnits(Tail(fileUnits), proximityThreshold, groupIndex,
                    [fileGroups EXCEPT
                        ![n].units = Append(@,
                            [unit EXCEPT !.semanticGroupId = fileGroups[n].id]),
                        ![n].range = mergeRanges(@, unit.range)])
            ELSE groupFileUnits(Tail(fileUnits), proximityThreshold, groupIndex + 1,
                    Append(fileGroups,
                        [id |-> id, filePath |-> unit.filePath,
                         symbolName |-> unit.symbolName, range |-> unit.range,
                         units |-> <<[unit EXCEPT !.semanticGroupId = id]>>]))

groupChangeUnits(unitSeq, option) ==
    LET proximityThreshold == proximityThresholdOf(option)
        keys == byFileKeys(unitSeq)
        fileUnitsOf(filePath) ==
            LET own == SelectSeq(unitSeq, LAMBDA u : u.filePath = filePath)
            IN  StableSort([k \in DOMAIN own |-> withSymbolName(own[k])],
                           startLineLess)
    IN  Concat([k \in DOMAIN keys |->
            groupFileUnits(fileUnitsOf(keys[k]), proximityThreshold, 0, <<>>)])

\* One more change unit of the diff; its id is its place in the input.
AddGroupingUnit ==
    /\ grouping.pc = "input"
    /\ Len(grouping.units) < MaxGroupUnits
    /\ \E filePath \in GroupFiles, range \in GroupRanges :
        grouping' = [grouping EXCEPT !.units = Append(@,
            [id |-> Len(grouping.units) + 1, filePath |-> filePath,
             range |-> range, symbolName |-> None, semanticGroupId |-> None])]
    /\ UNCHANGED <<tourVars, sessionVars, run, splitVars, bgVars, parseVars,
                   controller, invocations>>

\* The call of groupChangeUnits on the collected units.
GroupChangeUnits ==
    /\ grouping.pc = "input"
    /\ \E option \in ThresholdOptions :
        \E groups \in {groupChangeUnits(grouping.units, option)} :
            grouping' = [grouping EXCEPT
                !.pc = "grouped",
                !.proximityThreshold = proximityThresholdOf(option),
                !.groups = groups]
    /\ UNCHANGED <<tourVars, sessionVars, run, splitVars, bgVars, parseVars,
                   controller, invocations>>

NextGroup == AddGroupingUnit \/ GroupChangeUnits

SpecGroup == Init /\ [][NextGroup]_vars

\* The units of the groups returned, each with the place of its group.
groupedUnits ==
    UNION {{[group |-> g, unit |-> grouping.groups[g].units[k]] :
                k \in DOMAIN grouping.groups[g].units} :
           g \in DOMAIN grouping.groups}

\* Every input unit is in exactly one group, once.
groupsPartitionUnits ==
    /\ \A k \in DOMAIN grouping.units :
        Cardinality({x \in groupedUnits : x.unit.id = k}) = 1
    /\ Cardinality(groupedUnits) = Len(grouping.units)

\* The units of a group have the file and the symbol of the group; each unit
\* after the first starts at most proximityThreshold lines after the last
\* line of the units before it; the range of the group is min start / max end.
groupsAreProximityRuns ==
    \A g \in DOMAIN grouping.groups :
        LET group == grouping.groups[g]
        IN  /\ group.units # <<>>
            /\ \A k \in DOMAIN group.units :
                /\ group.units[k].filePath = group.filePath
                /\ group.units[k].symbolName = group.symbolName
                /\ k > 1 =>
                    group.units[k].range[1]
                        - Max({group.units[j].range[2] : j \in 1..(k - 1)})
                    <= grouping.proximityThreshold
            /\ group.range =
                <<Min({group.units[k].range[1] : k \in DOMAIN group.units}),
                  Max({group.units[k].range[2] : k \in DOMAIN group.units})>>

\* Two units of one file and one enclosing symbol whose gap is within the
\* threshold are in the same group.
nearUnitsShareGroup ==
    \A x, y \in groupedUnits :
        (/\ x.unit.id # y.unit.id
         /\ x.unit.filePath = y.unit.filePath
         /\ x.unit.symbolName = y.unit.symbolName
         /\ x.unit.range[1] <= y.unit.range[1]
         /\ y.unit.range[1] - x.unit.range[2] <= grouping.proximityThreshold)
        => x.group = y.group

\* C23: groupChangeUnits returns a proximity partition: every unit is in
\* exactly one group, a group holds units of one file and one enclosing
\* symbol, each starting within the threshold of the group so far, the
\* group's range is min start / max end, and two units of one file and one
\* symbol whose gap is within the threshold are in the same group.
C23_GroupingIsProximityPartition ==
    grouping.pc = "grouped" =>
        /\ groupsPartitionUnits
        /\ groupsAreProximityRuns
        /\ nearUnitsShareGroup

\* The first four parts of C23 alone hold of every call.
C23_PartitionIntoRuns ==
    grouping.pc = "grouped" => groupsPartitionUnits /\ groupsAreProximityRuns

\* Near units of one symbol are split only by a unit of another symbol that
\* starts between them.
C23_SplitOnlyByInterveningSymbol ==
    grouping.pc = "grouped" =>
        \A x, y \in groupedUnits :
            (/\ x.unit.id # y.unit.id
             /\ x.unit.filePath = y.unit.filePath
             /\ x.unit.symbolName = y.unit.symbolName
             /\ x.unit.range[1] <= y.unit.range[1]
             /\ y.unit.range[1] - x.unit.range[2] <= grouping.proximityThreshold
             /\ x.group # y.group)
            => \E z \in groupedUnits :
                /\ z.unit.filePath = x.unit.filePath
                /\ z.unit.symbolName # x.unit.symbolName
                /\ x.unit.range[1] <= z.unit.range[1]
                /\ z.unit.range[1] <= y.unit.range[1]

\* ------------------------------------------- tourController.ts: the tour
\* The TourController as a state machine: one action per public method, with
\* the private findNextIndex and emit as operators on the controller.
MaxTourSteps == 3
MaxListeners == 1

\* What the controller looks at in a step: its type and, for a main step of
\* a change unit, the changeKind of the unit.
StepKinds ==
    {[type |-> "main", changeKind |-> "definition"],
     [type |-> "main", changeKind |-> "global"],
     [type |-> "background", changeKind |-> None]}

\* The step lists handed to setSteps: ids are distinct, here the position.
TourLists ==
    UNION {{[k \in 1..n |-> [id |-> k, type |-> kinds[k].type,
                             changeKind |-> kinds[k].changeKind]] :
                kinds \in [1..n -> StepKinds]} :
           n \in 0..MaxTourSteps}

\* isGlobalStep of tourController.ts: a main step of a global change unit.
isGlobalTourStep(step) == step.type = "main" /\ step.changeKind = "global"

\* A step the filters of the controller let through.
shown(c, step) ==
    /\ c.showBackground \/ step.type # "background"
    /\ c.showGlobals \/ ~isGlobalTourStep(step)

\* findNextIndex(start, direction): the first shown step from start +
\* direction on in that direction, -1 when the list ends first. Indices are
\* those of the code, from 0: step index is c.steps[index + 1].
RECURSIVE findNextIndex(_, _, _)
findNextIndex(c, start, direction) ==
    LET index == start + direction
    IN  IF index < 0 \/ index >= Len(c.steps) THEN -1
        ELSE IF shown(c, c.steps[index + 1]) THEN index
        ELSE findNextIndex(c, index, direction)

\* getState(): what a listener is handed.
getState(c) ==
    [steps |-> c.steps, currentIndex |-> c.currentIndex, status |-> c.status,
     showBackground |-> c.showBackground, showGlobals |-> c.showGlobals,
     overallMode |-> c.overallMode]

\* What a listener holds before its first notification.
NothingSeen ==
    [steps |-> <<>>, currentIndex |-> -1, status |-> "unseen",
     showBackground |-> TRUE, showGlobals |-> TRUE, overallMode |-> FALSE]

\* emit(): every registered listener is called with getState().
emit(c) == [c EXCEPT !.seen = [l \in c.listeners |-> getState(c)]]

\* getCurrentStep() is defined: currentIndex is an index of steps.
hasCurrentStep(c) == c.currentIndex >= 0 /\ c.currentIndex < Len(c.steps)

\* setSteps without the reset of currentIndex and status.
setStepsKeepingIndex(c, newSteps) == emit([c EXCEPT !.steps = newSteps])

setSteps(c, newSteps) ==
    emit([c EXCEPT !.steps = newSteps, !.currentIndex = -1, !.status = "idle"])

jumpToStep(c, stepId) ==
    LET hits == {k \in DOMAIN c.steps : c.steps[k].id = stepId}
        index == IF hits = {} THEN -1 ELSE Min(hits) - 1
        running == [c EXCEPT !.status = "running"]
    IN  IF index < 0 THEN c
        ELSE IF Len(c.steps) = 0
        THEN emit([c EXCEPT !.status = "completed", !.currentIndex = -1])
        ELSE IF ~shown(c, c.steps[index + 1])
        THEN IF findNextIndex(c, index, 1) < 0
             THEN running
             ELSE emit([running EXCEPT
                        !.currentIndex = findNextIndex(c, index, 1)])
        ELSE emit([running EXCEPT !.currentIndex = index])

start(c) ==
    IF Len(c.steps) = 0
    THEN emit([c EXCEPT !.status = "completed", !.currentIndex = -1])
    ELSE emit([c EXCEPT !.status = "running",
                        !.currentIndex = findNextIndex(c, -1, 1)])

next(c) ==
    IF c.status # "running" THEN c
    ELSE IF findNextIndex(c, c.currentIndex, 1) < 0
    THEN emit([c EXCEPT !.status = "completed"])
    ELSE emit([c EXCEPT !.currentIndex = findNextIndex(c, c.currentIndex, 1)])

previous(c) ==
    IF c.status # "running" THEN c
    ELSE IF findNextIndex(c, c.currentIndex, -1) < 0
    THEN emit([c EXCEPT !.currentIndex = findNextIndex(c, -1, 1)])
    ELSE emit([c EXCEPT !.currentIndex = findNextIndex(c, c.currentIndex, -1)])

stop(c) == emit([c EXCEPT !.status = "idle", !.currentIndex = -1])

setShowBackground(c, value) ==
    LET set == [c EXCEPT !.showBackground = value]
    IN  IF /\ set.status = "running"
           /\ hasCurrentStep(set)
           /\ set.steps[set.currentIndex + 1].type = "background"
           /\ ~value
        THEN emit([set EXCEPT
                   !.currentIndex = findNextIndex(set, set.currentIndex, 1)])
        ELSE emit(set)

setShowGlobals(c, value) ==
    LET set == [c EXCEPT !.showGlobals = value]
    IN  IF /\ set.status = "running"
           /\ hasCurrentStep(set)
           /\ isGlobalTourStep(set.steps[set.currentIndex + 1])
           /\ ~value
        THEN emit([set EXCEPT
                   !.currentIndex = findNextIndex(set, set.currentIndex, 1)])
        ELSE emit(set)

setOverallMode(c, value) == emit([c EXCEPT !.overallMode = value])

ctlUnchanged ==
    UNCHANGED <<tourVars, sessionVars, run, splitVars, bgVars, parseVars,
                grouping, invocations>>

OnDidChange ==
    /\ Cardinality(controller.listeners) < MaxListeners
    /\ \E l \in (1..MaxListeners) \ controller.listeners :
        controller' = [controller EXCEPT
            !.listeners = @ \cup {l},
            !.seen = [k \in controller.listeners \cup {l} |->
                        IF k = l THEN NothingSeen ELSE controller.seen[k]]]
    /\ ctlUnchanged

SetSteps ==
    /\ \E newSteps \in TourLists :
        controller' = setSteps(controller, newSteps)
    /\ ctlUnchanged

JumpToStep ==
    /\ \E stepId \in 1..(MaxTourSteps + 1) :
        controller' = jumpToStep(controller, stepId)
    /\ ctlUnchanged

Start ==
    /\ controller' = start(controller)
    /\ ctlUnchanged

NextStep ==
    /\ controller' = next(controller)
    /\ ctlUnchanged

PreviousStep ==
    /\ controller' = previous(controller)
    /\ ctlUnchanged

Stop ==
    /\ controller' = stop(controller)
    /\ ctlUnchanged

\* setShowBackground(value), and toggleShowBackground as its call with the
\* negated flag.
SetShowBackground ==
    /\ \E value \in BOOLEAN :
        controller' = setShowBackground(controller, value)
    /\ ctlUnchanged

SetShowGlobals ==
    /\ \E value \in BOOLEAN :
        controller' = setShowGlobals(controller, value)
    /\ ctlUnchanged

SetOverallMode ==
    /\ \E value \in BOOLEAN :
        controller' = setOverallMode(controller, value)
    /\ ctlUnchanged

NextController ==
    \/ OnDidChange
    \/ SetSteps
    \/ JumpToStep
    \/ Start
    \/ NextStep
    \/ PreviousStep
    \/ Stop
    \/ SetShowBackground
    \/ SetShowGlobals
    \/ SetOverallMode

SpecController == Init /\ [][NextController]_vars

\* C24: while the tour is running, currentIndex is an index of steps and the
\* step at it is let through by the filters: it is not a background step
\* while showBackground is false, not a global step while showGlobals is
\* false.
C24_RunningShowsVisibleStep ==
    controller.status = "running" =>
        /\ hasCurrentStep(controller)
        /\ shown(controller, controller.steps[controller.currentIndex + 1])

\* C25: currentIndex is -1 or an index of steps, it is -1 whenever the
\* status is idle, and a call of next() or previous() while the tour is not
\* running changes neither status nor currentIndex.
C25_IndexBounds ==
    /\ -1 <= controller.currentIndex
    /\ controller.currentIndex < Len(controller.steps)
    /\ controller.status = "idle" => controller.currentIndex = -1
    /\ controller.status # "running" =>
        /\ next(controller).status = controller.status
        /\ next(controller).currentIndex = controller.currentIndex
        /\ previous(controller).status = controller.status
        /\ previous(controller).currentIndex = controller.currentIndex

\* next() has ended a tour on its last step: the status is completed and
\* currentIndex is still the last index of a list of several steps.
C25_Witness ==
    /\ controller.status = "completed"
    /\ Len(controller.steps) > 1
    /\ controller.currentIndex = Len(controller.steps) - 1

\* The controller after n calls of next() with no other call in between.
RECURSIVE nextTimes(_, _)
nextTimes(c, n) == IF n = 0 THEN c ELSE nextTimes(next(c), n - 1)

\* A call of next() that leaves the tour running moves currentIndex forward.
nextMovesForward ==
    (controller.status = "running" /\ next(controller).status = "running")
        => next(controller).currentIndex > controller.currentIndex

\* From a running tour, steps.length calls of next() complete it.
nextCompletesWithinLength ==
    controller.status = "running" =>
        nextTimes(controller, Len(controller.steps)).status = "completed"

\* A completed tour is left as it is by next() and previous().
completedIsFinal ==
    controller.status = "completed" =>
        next(controller) = controller /\ previous(controller) = controller

\* C26: from a running tour, calls of next() with nothing in between move
\* currentIndex strictly forward while the tour stays running and complete
\* the tour within steps.length calls; a completed tour is unchanged by
\* next() and previous().
C26_TourCompletion ==
    /\ nextMovesForward
    /\ nextCompletesWithinLength
    /\ completedIsFinal

\* All of C26 but the number of calls, which is steps.length + 1 at most; and
\* steps.length calls do complete a running tour that has a current step.
C26_CompletionWithinLengthPlusOne ==
    /\ nextMovesForward
    /\ completedIsFinal
    /\ controller.status = "running" =>
        nextTimes(controller, Len(controller.steps) + 1).status = "completed"
    /\ (controller.status = "running" /\ hasCurrentStep(controller)) =>
        nextTimes(controller, Len(controller.steps)).status = "completed"

\* C27: an operation that changes what getState() returns (status,
\* currentIndex, the steps or a flag) has notified every registered listener
\* with the new state when it returns.
C27_ListenersSeeEveryChange ==
    [][getState(controller') # getState(controller) =>
        \A l \in controller'.listeners :
            controller'.seen[l] = getState(controller')]_vars

\* The one change made without a notification: the status becomes running
\* and nothing else changes (jumpToStep to a hidden step with no shown step
\* after it).
C27_OnlyRunningUnannounced ==
    [][(/\ getState(controller') # getState(controller)
        /\ ~(/\ controller.status # "running"
             /\ getState(controller') =
                    [getState(controller) EXCEPT !.status = "running"]))
       => \A l \in controller'.listeners :
            controller'.seen[l] = getState(controller')]_vars

\* ------------------------------------------- tourGraph.ts: well-formedness
\* The ids of the nodes of the graph.
nodeIds == {graph.nodes[k].id : k \in DOMAIN graph.nodes}

MaxInvocations == 2

\* The intents and the diffs of the invocations; <<>> is a working tree
\* without changes (status 'no-diff' or 'no-hunks').
OverlapIntents == {None, "fix"}
OverlapDiffs == {<<>>, <<StepShapes[1]>>, <<StepShapes[1], StepShapes[3]>>}

\* buildTourStepsWithExplanations in invocation k: the generator answers
\* each request of each invocation with a text of its own.
generatedBy(shapes, intent, k) ==
    [j \in DOMAIN shapes |->
        [type |-> shapes[j].type, filePath |-> shapes[j].filePath,
         range |-> shapes[j].range,
         explanation |-> <<"explanation", buildStepKey(shapes[j]), intent, k>>]]

\* The steps as the controller holds them: TourStep with id, type and the
\* changeKind of the unit (a definition for the main steps of the model).
tourStepsOf(tourSteps) ==
    [j \in DOMAIN tourSteps |->
        [id |-> j, type |-> tourSteps[j].type,
         changeKind |-> IF tourSteps[j].type = "main" THEN "definition" ELSE None,
         filePath |-> tourSteps[j].filePath, range |-> tourSteps[j].range,
         explanation |-> tourSteps[j].explanation]]

\* The steps of the stored branch of startTour: buildTourSteps, each step
\* with the explanation of the record of its key when there is one.
withStored(shapes, records) ==
    [j \in DOMAIN shapes |->
        IF storedGet(records, buildStepKey(shapes[j])) # <<>>
        THEN [buildTourSteps(shapes)[j] EXCEPT
                !.explanation =
                    storedGet(records, buildStepKey(shapes[j]))[1].explanation]
        ELSE buildTourSteps(shapes)[j]]

\* controller.setSteps(steps, graphSteps); controller.start();
installSteps(c, tourSteps) == start(setSteps(c, tourStepsOf(tourSteps)))

overlapUnchanged ==
    UNCHANGED <<tourVars, run, splitVars, bgVars, parseVars, explain, started,
                grouping>>

\* The command is run: startTour is called and awaits buildDiffArtifacts.
\* overlapped: an invocation started before it has not returned yet.
CallStartTour ==
    /\ Len(invocations) < MaxInvocations
    /\ \E intent \in OverlapIntents :
        invocations' = Append(invocations,
            [pc |-> "diff", intent |-> intent, shapes |-> <<>>, steps |-> <<>>,
             overlapped |-> \E k \in DOMAIN invocations :
                                invocations[k].pc # "done",
             saved |-> FALSE, installed |-> FALSE])
    /\ UNCHANGED <<store, controller>>
    /\ overlapUnchanged

\* buildDiffArtifacts and buildOverallSteps have resolved: without a diff
\* startTour returns, else it calls explanationStore.load.
DiffArtifactsBuilt(k) ==
    /\ invocations[k].pc = "diff"
    /\ \E shapes \in OverlapDiffs :
        invocations' = [invocations EXCEPT
            ![k].shapes = shapes,
            ![k].pc = IF shapes = <<>> THEN "done" ELSE "load"]
    /\ UNCHANGED <<store, controller>>
    /\ overlapUnchanged

\* load has resolved. With records the steps are rebuilt, take the stored
\* explanations and are installed; without, the generation is started.
StoreLoaded(k) ==
    /\ invocations[k].pc = "load"
    /\ \E stored \in {load(invocations[k].intent)} :
        IF stored.records # <<>>
        THEN \E tourSteps \in {withStored(invocations[k].shapes, stored.records)} :
            /\ controller' = installSteps(controller, tourSteps)
            /\ invocations' = [invocations EXCEPT
                    ![k].pc = "done", ![k].steps = tourSteps,
                    ![k].installed = TRUE]
        ELSE
            /\ invocations' = [invocations EXCEPT ![k].pc = "generate"]
            /\ UNCHANGED controller
    /\ UNCHANGED store
    /\ overlapUnchanged

\* withProgress has resolved with the generated steps, or with placeholder
\* steps when the generator failed; save is called and updates the
\* workspace state.
StepsGenerated(k) ==
    /\ invocations[k].pc = "generate"
    /\ \E generated \in BOOLEAN :
        \E tourSteps \in {IF generated
                          THEN generatedBy(invocations[k].shapes,
                                           invocations[k].intent, k)
                          ELSE buildTourSteps(invocations[k].shapes)} :
            /\ invocations' = [invocations EXCEPT
                    ![k].pc = "write", ![k].steps = tourSteps]
            /\ store' = [store EXCEPT
                    !.state = payloadOf(tourSteps, invocations[k].intent)]
    /\ UNCHANGED controller
    /\ overlapUnchanged

\* mkdir and writeFile of save have resolved: the store file holds the
\* payload; or one of them rejected and startTour ends in its catch.
StoreFileWritten(k) ==
    /\ invocations[k].pc = "write"
    /\ \E written \in BOOLEAN :
        IF written
        THEN /\ store' = [store EXCEPT
                    !.file = payloadOf(invocations[k].steps, invocations[k].intent)]
             /\ invocations' = [invocations EXCEPT
                    ![k].pc = "log", ![k].saved = TRUE]
        ELSE /\ invocations' = [invocations EXCEPT ![k].pc = "done"]
             /\ UNCHANGED store
    /\ UNCHANGED controller
    /\ overlapUnchanged

\* writeTourDebugLog has resolved: the steps are installed and the tour
\* is started.
DebugLogWritten(k) ==
    /\ invocations[k].pc = "log"
    /\ controller' = installSteps(controller, invocations[k].steps)
    /\ invocations' = [invocations EXCEPT ![k].pc = "done", ![k].installed = TRUE]
    /\ UNCHANGED store
    /\ overlapUnchanged

NextOverlap ==
    \/ CallStartTour
    \/ \E k \in DOMAIN invocations : DiffArtifactsBuilt(k)
    \/ \E k \in DOMAIN invocations : StoreLoaded(k)
    \/ \E k \in DOMAIN invocations : StepsGenerated(k)
    \/ \E k \in DOMAIN invocations : StoreFileWritten(k)
    \/ \E k \in DOMAIN invocations : DebugLogWritten(k)

SpecOverlap == Init /\ [][NextOverlap]_vars

\* Several invocations have overlapped, all have returned, and each has
\* saved its records and installed its steps.
overlappingBuildsDone ==
    /\ Len(invocations) >= 2
    /\ \A k \in DOMAIN invocations :
        /\ invocations[k].pc = "done"
        /\ invocations[k].saved
        /\ invocations[k].installed
    /\ \E k \in DOMAIN invocations : invocations[k].overlapped

\* The steps of the controller and the records of the workspace state and
\* of the store file are those of invocation k.
allFrom(k) ==
    /\ controller.steps = tourStepsOf(invocations[k].steps)
    /\ store.state = payloadOf(invocations[k].steps, invocations[k].intent)
    /\ store.file = payloadOf(invocations[k].steps, invocations[k].intent)

\* C29: when startTour invocations have overlapped and all have finished,
\* the steps in the TourController and the records saved by
\* ExplanationStore.save come from one invocation, the one started last.
C29_OverlappingBuildsCoherent ==
    overlappingBuildsDone => allFrom(Len(invocations))

\* The weaker statement, that they come from any one invocation.
C29_FromOneInvocation ==
    overlappingBuildsDone => \E k \in DOMAIN invocations : allFrom(k)

\* ------------------------------------------- cache keys of a built tour
\* A tour is built with explanations and saved, then built again and given
\* the stored explanations, as startTour does on its two branches.

\* The regions of the units: those of the explanation model and the method
\* Box.size, written on the one line of its class Box (label is the
\* qualifiedName of the definition, range its lines).
KeyRegions ==
    BackgroundRegions
    \cup {[filePath |-> "a.ts", range |-> <<3, 3>>, label |-> "Box.size"]}

KeyRegionLists ==
    {<<>>} \cup {<<r>> : r \in KeyRegions}
           \cup ({<<r, q>> : r, q \in KeyRegions} \ {<<r, r>> : r \in KeyRegions})

\* The units of the diff: a definition and two operations, which the
\* splitter gives different places.
KeyUnits ==
    {[backgroundRegions |-> regions] @@ unit :
        unit \in {Unit("definition", "a.ts", 1, "helper", <<"helper">>),
                  Unit("operation", "a.ts", 2, None, <<"helper">>),
                  Unit("operation", "B.ts", 2, None, <<"helper">>)},
        regions \in KeyRegionLists}

\* buildMainSteps and buildBackgroundStepsForTour: the ordered background
\* steps, then the ordered main steps, each with what buildStepKey reads
\* (type, target.filePath, target.range) and its explanation: the text the
\* generator gives for the unit of a main step, for the region of a
\* background step.
tourOfCollected(collected, bg) ==
    [k \in DOMAIN bg |->
        [id |-> <<"bg", bg[k].id>>, type |-> "background",
         filePath |-> bg[k].target.filePath,
         range |-> bg[k].target.range,
         label |-> bg[k].target.label,
         explanation |-> <<"background", buildRegionKey(bg[k].target)>>]]
    \o [k \in DOMAIN collected.orderedMainSteps |->
        [id |-> <<"main", collected.orderedMainSteps[k].id>>,
         type |-> "main",
         filePath |-> collected.orderedMainSteps[k].filePath,
         range |-> <<collected.orderedMainSteps[k].startLine,
                     collected.orderedMainSteps[k].endLine>>,
         label |-> None,
         explanation |-> <<"main", collected.orderedMainSteps[k].id>>]]

explainedTour(groups) ==
    CHOOSE tour \in
        {tourOfCollected(collected,
            orderBackgroundSteps([k \in DOMAIN collected.regionSteps |->
                                    collected.regionSteps[k].step])) :
            collected \in
                {collectBackgroundSteps(
                    [k \in DOMAIN groups |->
                        [backgroundRegions |-> groups[k].backgroundRegions]
                        @@ mainStep(groups[k], k)])}} :
        TRUE

keysUnchanged ==
    UNCHANGED <<tourVars, uiVars, run, splitVars, bgVars, parseVars>>

\* One more unit of the diff, with its background regions; no two units of
\* a diff are at the same place.
AddKeyedUnit ==
    /\ explain.pc = "input"
    /\ Len(explain.groups) < MaxExplainUnits
    /\ \E unit \in KeyUnits :
        /\ \A k \in DOMAIN explain.groups :
            <<explain.groups[k].filePath, explain.groups[k].startLine>>
                # <<unit.filePath, unit.startLine>>
        /\ explain' = [explain EXCEPT !.groups = Append(@, unit)]
    /\ UNCHANGED <<store, started>>
    /\ keysUnchanged

\* startTour with nothing stored: the tour is built with explanations,
\* saved and shown.
BuildAndSaveTour ==
    /\ explain.pc = "input"
    /\ explain.groups # <<>>
    /\ \E tour \in {explainedTour(explain.groups)} :
        /\ explain' = [explain EXCEPT !.result = tour, !.pc = "saved"]
        /\ store' = [state |-> payloadOf(tour, None),
                     file |-> payloadOf(tour, None)]
        /\ started' = [intent |-> None, loaded |-> <<>>, steps |-> tour,
                       applied |-> {}]
    /\ keysUnchanged

\* startTour again on the same diff: the steps are rebuilt with
\* placeholders and each takes the stored explanation of its key.
ReloadTour ==
    /\ explain.pc = "saved"
    /\ \E stored \in {load(None)} :
        /\ stored.records # <<>>
        /\ started' = [intent |-> None, loaded |-> <<stored>>,
                       steps |-> withStored(explain.result, stored.records),
                       applied |-> {}]
    /\ explain' = [explain EXCEPT !.pc = "reloaded"]
    /\ UNCHANGED store
    /\ keysUnchanged

NextKeys == AddKeyedUnit \/ BuildAndSaveTour \/ ReloadTour

SpecKeys == Init /\ [][NextKeys]_vars

C30_OnlyRegionsOfOneRangeCollide ==
    /\ explain.pc \in {"saved", "reloaded"} =>
        \A k, l \in DOMAIN explain.result :
            (k # l /\ buildStepKey(explain.result[k]) = buildStepKey(explain.result[l]))
            => /\ explain.result[k].type = "background"
               /\ explain.result[l].type = "background"
               /\ explain.result[k].label # explain.result[l].label
    /\ explain.pc = "reloaded" =>
        \A k \in DOMAIN explain.result :
            (\A l \in DOMAIN explain.result :
                l # k => buildStepKey(explain.result[k]) # buildStepKey(explain.result[l]))
            => started.steps[k].explanation = explain.result[k].explanation

====
